---------------------------- MODULE Spec2Model ----------------------------
(***************************************************************************)
(* A model of the bl602-ws2811 LED animation firmware.                     *)
(*                                                                         *)
(*   - utility.rs     Progression, StatefulRainbow, shift_offset           *)
(*   - colors.rs      Color::color_lerp                                    *)
(*   - trigger.rs     TriggerCollection, Trigger and the trigger modes     *)
(*   - animations.rs  Animation (update / trigger)                         *)
(*   - leds.rs        LogicalStrip (colour buffer and byte buffer)         *)
(*   - hardware.rs    PeriodicTimer::periodic_check_timeout                *)
(*                                                                         *)
(* Rust integers are modelled as TLA+ integers; the places where the       *)
(* source narrows a value (as u8, as u16) reduce it modulo 2^8 or 2^16,    *)
(* and signed division truncates toward zero as i32 division does.         *)
(***************************************************************************)
EXTENDS Integers, Sequences, FiniteSets, TLC

VARIABLES
    tc,             \* trigger.rs: the TriggerCollection
    segment,        \* trigger.rs: the colour segment handed to TriggerCollection::update
    next_id,        \* history: number of Trigger values built so far (their serial numbers)
    overflow_checks,\* build profile: TRUE when arithmetic overflow panics (debug), FALSE when it wraps
    panicked,       \* TRUE once the firmware has halted in its panic handler
    animation_array,\* lighting_controller: the Animations of the LightingController
    office_strip,   \* leds.rs: the LogicalStrip of the LightingController
    timer_ch1,      \* hardware.rs: the frame timer (match flag of comparator 2)
    pins,           \* for every data pin the bits last sent to it
    trace,          \* history: what the last LightingController::update call did, in order
    background,     \* background.rs: a Background
    bg_log,         \* history: updates of the Background so far, trigger requests since the
                    \* last one and served by it, whether there ever was a request
    foreground,     \* foreground.rs: a Foreground
    fg_log,         \* history: updates of the Foreground so far and what the last step was
    progression,    \* utility.rs: a Progression
    calls,          \* history: the Progression at its first call and what each call returned
    stateful_rainbow, \* utility.rs: a StatefulRainbow
    hc,             \* hardware.rs: the HardwareController (data pins and periodic timer)
    sender,         \* leds.rs: where send_all_sequential / send_bits stands, with its locals
    wave            \* history: for every data pin its level over the timer periods so far

tcVars == <<tc, segment, next_id>>
lcVars == <<animation_array, office_strip, timer_ch1, pins, trace>>
bgVars == <<background, bg_log>>
fgVars == <<foreground, fg_log>>
pgVars == <<progression, calls, stateful_rainbow>>
hwVars == <<hc, sender, wave>>
unitVars == <<bgVars, fgVars, pgVars, hwVars>>
vars == <<tc, segment, next_id, overflow_checks, panicked,
          animation_array, office_strip, timer_ch1, pins, trace, bgVars, fgVars, pgVars, hwVars>>

-----------------------------------------------------------------------------
(* Bounds of the model *)

\* capacity N of TriggerCollection<N>
MaxTriggers == 2
\* number of add_trigger calls explored (serial numbers handed out)
MaxAdds == 3
\* number of LEDs of the segment
SegLen == 2

\* the longest fade-in and the longest fade-out of a watched flash, in frames
MaxFadeFrames == 3

\* number of LEDs of each physical strip of the LightingController
StripLeds == 1
\* number of values an Animation's random number generator may have produced when a
\* trigger request is made of it
MaxDraws == 2

\* the longest duration of a Background, in frames, besides the ten frames of the
\* slow fade scenario
MaxDuration == 3
\* the most LEDs of the segment a Background paints
BgLeds == 2
\* number of Background::update calls explored
MaxBgUpdates == 11
\* the most Background trigger requests between two updates
MaxRequests == 2

\* the most LEDs of a physical strip whose transmission is followed bit by bit
SendLeds == 1

\* largest total of a Progression explored on its own, and the calls made on it
MaxTotal == 4
MaxCalls == 9

\* largest value handed to Progression::set_current
MaxValue == 9

\* leds of the segment a Foreground paints, and the Foreground::update calls explored
FgLeds == 4
MaxFgUpdates == 7

-----------------------------------------------------------------------------
(* Integer helpers *)

Abs(x) == IF x < 0 THEN -x ELSE x

\* i32 `/`: truncates toward zero
TruncDiv(a, b) ==
    LET q == Abs(a) \div Abs(b)
    IN  IF (a < 0) # (b < 0) THEN -q ELSE q

AsU8(x) == x % 256

AsU16(x) == x % 65536

Max(a, b) == IF a >= b THEN a ELSE b

-----------------------------------------------------------------------------
(* colors.rs *)

Color(r, g, b) == [r |-> r, g |-> g, b |-> b]

C_RED == Color(255, 0, 0)
C_GREEN == Color(0, 255, 0)
C_BLUE == Color(0, 0, 255)
C_WHITE == Color(255, 255, 255)
C_OFF == Color(0, 0, 0)

\* Color::color_lerp divides by (in_max - in_min): a zero divisor panics
color_lerp_panics(in_min, in_max) == in_max - in_min = 0

\* Color::color_lerp; the g and b deltas are taken from start_color.r, as in the source
color_lerp(factor, in_min, in_max, start_color, end_color) ==
    [r |-> AsU8(TruncDiv((factor - in_min) * (end_color.r - start_color.r), in_max - in_min)
                + start_color.r),
     g |-> AsU8(TruncDiv((factor - in_min) * (end_color.g - start_color.r), in_max - in_min)
                + start_color.g),
     b |-> AsU8(TruncDiv((factor - in_min) * (end_color.b - start_color.r), in_max - in_min)
                + start_color.b)]

-----------------------------------------------------------------------------
(* utility.rs: Progression *)

Progression_new(total) == [current |-> 0, total |-> total, is_forward |-> TRUE]

reverse_direction(p) == [p EXCEPT !.is_forward = ~p.is_forward]

is_mono(p) == p.total <= 1

get_current(p) ==
    IF is_mono(p) THEN 0
    ELSE IF p.is_forward THEN p.current ELSE p.total - 1 - p.current

\* set_current that stores the value as it comes
set_current_unreduced(p, value) ==
    IF is_mono(p) THEN p ELSE [p EXCEPT !.current = value]

set_current(p, value) ==
    IF is_mono(p) THEN p ELSE [p EXCEPT !.current = value % p.total]

up_one(p) == IF is_mono(p) THEN 0 ELSE (p.current + 1) % p.total

down_one(p) == IF is_mono(p) THEN 0 ELSE (p.current + p.total - 1) % p.total

peek_next(p) == up_one(p)

peek_prev(p) == down_one(p)

increment(p) == IF is_mono(p) THEN p ELSE [p EXCEPT !.current = peek_next(p)]

\* checked_increment that reports the last position instead of the wrap to 0
checked_increment_at_last(p) ==
    IF is_mono(p) THEN FALSE ELSE increment(p).current = p.total - 1

\* checked_increment: the value returned (did_roll); the Progression after it is increment(p)
checked_increment(p) == IF is_mono(p) THEN FALSE ELSE increment(p).current = 0

decrement(p) == IF is_mono(p) THEN p ELSE [p EXCEPT !.current = peek_prev(p)]

\* checked_decrement: the value returned; the Progression after it is decrement(p)
checked_decrement(p) == IF is_mono(p) THEN FALSE ELSE decrement(p).current = p.total - 1

reset(p) == [p EXCEPT !.current = 0]

\* Color::lerp_with (utility.rs)
lerp_with_panics(factor) == color_lerp_panics(0, factor.total)

lerp_with(self, to_color, factor) ==
    color_lerp(get_current(factor), 0, factor.total, self, to_color)

\* convert_ns_to_frames: nanos * frame_rate / 1_000_000_000 in u64.  The model checker's
\* integers are 32 bit wide, so the product is formed in microseconds; for the whole
\* microseconds the model uses as times this is the same quotient.
convert_ns_to_frames(nanos, rate) == ((nanos \div 1000) * rate) \div 1000000


-----------------------------------------------------------------------------
(* animations.rs / utility.rs: offsets *)

MAX_OFFSET == 65535

\* utility.rs get_random_offset reads the cycle counter: any u16; these stand for it
RandomOffsets == {0, 43690}

\* shift_offset taking the frame after the current one
shift_offset_frame_ahead(starting_offset, frames, direction) ==
    IF frames.total = 0 THEN starting_offset
    ELSE LET offset_shift ==
                 CASE direction = "Positive" ->
                          (MAX_OFFSET * peek_next(frames)) \div frames.total
                   [] direction = "Negative" ->
                          (MAX_OFFSET * (frames.total - peek_next(frames))) \div frames.total
                   [] OTHER -> 0
         IN  AsU16(starting_offset + offset_shift)

shift_offset(starting_offset, frames, direction) ==
    IF frames.total = 0 THEN starting_offset
    ELSE LET offset_shift ==
                 CASE direction = "Positive" ->
                          (MAX_OFFSET * get_current(frames)) \div frames.total
                   [] direction = "Negative" ->
                          (MAX_OFFSET * (frames.total - get_current(frames))) \div frames.total
                   [] OTHER -> 0
         IN  AsU16(starting_offset + offset_shift)

-----------------------------------------------------------------------------
(* utility.rs: ReversibleRainbow and StatefulRainbow *)

StatefulRainbow_new(rainbow, is_forward) ==
    [backer |-> [backer |-> rainbow, is_forward |-> is_forward],
     position |-> Progression_new(Len(rainbow))]

\* Index<usize> for ReversibleRainbow; sequences are 1-based, the source's slices 0-based
rainbow_index(backer, index) ==
    IF backer.is_forward THEN backer.backer[index + 1]
    ELSE backer.backer[(Len(backer.backer) - 1 - index) + 1]

current_color(rainbow) == rainbow_index(rainbow.backer, get_current(rainbow.position))

peek_next_color(rainbow) == rainbow_index(rainbow.backer, peek_next(rainbow.position))

rainbow_increment(rainbow) == [rainbow EXCEPT !.position = increment(@)]

rainbow_reset(rainbow) == [rainbow EXCEPT !.position = reset(@)]

\* FadeRainbow::calculate_fade_color for TimedRainbows (fade_rainbow, frames)
calculate_fade_color(global) ==
    IF global.frames.total = 0 THEN current_color(global.fade_rainbow)
    ELSE lerp_with(current_color(global.fade_rainbow),
                   peek_next_color(global.fade_rainbow), global.frames)

\* MarchingRainbow::current_rainbow_color (incremental_rainbow)
current_rainbow_color(global) == current_color(global.incremental_rainbow)

\* MarchingRainbowMut::advance_rainbow_color for TimedRainbows
advance_rainbow_color(global) ==
    [global EXCEPT !.incremental_rainbow = rainbow_increment(@),
                   !.frames = reset(@)]

-----------------------------------------------------------------------------
(* trigger.rs: Trigger, the trigger modes and their init / update functions *)

\* the frame rate the examples construct their animations with
frame_rate == 60

\* Mode::get_behavior: (initializer, updater); "None" where the source has None
get_behavior(mode) ==
    CASE mode = "ColorPulse" -> <<"init_color_pulse", "color_pulse">>
      [] mode = "ColorPulseFade" -> <<"init_color_pulse_fade", "color_pulse">>
      [] mode = "ColorPulseRainbow" -> <<"init_color_pulse_rainbow", "color_pulse">>
      [] mode = "ColorShot" -> <<"init_color_shot", "color_shot">>
      [] mode = "ColorShotFade" -> <<"init_color_shot_fade", "color_shot">>
      [] mode = "ColorShotRainbow" -> <<"init_color_shot_rainbow", "color_shot">>
      [] mode = "Flash" -> <<"init_flash", "flash">>
      [] mode = "FlashFade" -> <<"init_flash_fade", "flash">>
      [] mode = "FlashRainbow" -> <<"init_flash_rainbow", "flash">>
      [] OTHER -> <<"None", "None">>

\* Trigger::new; id is the serial number of the value (history, not in the source)
Trigger_new(init, color, rate, id) ==
    [id |-> id,
     offset |-> init.starting_offset,
     frames |-> Progression_new(
                    convert_ns_to_frames(init.fade_in_time_ns + init.fade_out_time_ns, rate)),
     transition_frame |-> convert_ns_to_frames(init.fade_in_time_ns, rate),
     direction |-> init.direction,
     color |-> color,
     updater |-> "None",
     pixels_per_pixel_group |-> init.pixels_per_pixel_group]

\* The init functions take (trigger, global) and change both; random is the value
\* get_random_offset() returns in this call.
init_color_pulse(trigger, global, random) ==
    [trigger |-> [trigger EXCEPT !.direction = "Stopped", !.offset = random],
     global |-> global]

init_color_pulse_fade(trigger, global, random) ==
    init_color_pulse([trigger EXCEPT !.color = calculate_fade_color(global)], global, random)

init_color_pulse_rainbow(trigger, global, random) ==
    LET r == init_color_pulse([trigger EXCEPT !.color = current_rainbow_color(global)],
                              global, random)
    IN  [trigger |-> r.trigger, global |-> advance_rainbow_color(r.global)]

init_color_shot(trigger, global, random) == [trigger |-> trigger, global |-> global]

init_color_shot_fade(trigger, global, random) ==
    init_color_shot([trigger EXCEPT !.color = calculate_fade_color(global)], global, random)

init_color_shot_rainbow(trigger, global, random) ==
    LET r == init_color_shot([trigger EXCEPT !.color = current_rainbow_color(global)],
                             global, random)
    IN  [trigger |-> r.trigger, global |-> advance_rainbow_color(r.global)]

init_flash(trigger, global, random) ==
    [trigger |-> [trigger EXCEPT !.direction = "Stopped"], global |-> global]

init_flash_fade(trigger, global, random) ==
    LET r == init_flash(trigger, global, random)
    IN  [trigger |-> [r.trigger EXCEPT !.color = calculate_fade_color(r.global)],
         global |-> r.global]

\* a variant that advances the palette cursor before it takes the colour
init_flash_rainbow_advance_first(trigger, global, random) ==
    LET r == init_flash(trigger, global, random)
        g == advance_rainbow_color(r.global)
    IN  [trigger |-> [r.trigger EXCEPT !.color = current_rainbow_color(g)], global |-> g]

init_flash_rainbow(trigger, global, random) ==
    LET r == init_flash(trigger, global, random)
        t == [r.trigger EXCEPT !.color = current_rainbow_color(r.global)]
    IN  [trigger |-> t, global |-> advance_rainbow_color(r.global)]

\* the call initialize(&mut new_trigger, &mut TimedRainbows {..}) of add_trigger
initialize(initializer, trigger, global, random) ==
    CASE initializer = "init_color_pulse" -> init_color_pulse(trigger, global, random)
      [] initializer = "init_color_pulse_fade" -> init_color_pulse_fade(trigger, global, random)
      [] initializer = "init_color_pulse_rainbow" ->
             init_color_pulse_rainbow(trigger, global, random)
      [] initializer = "init_color_shot" -> init_color_shot(trigger, global, random)
      [] initializer = "init_color_shot_fade" -> init_color_shot_fade(trigger, global, random)
      [] initializer = "init_color_shot_rainbow" ->
             init_color_shot_rainbow(trigger, global, random)
      [] initializer = "init_flash" -> init_flash(trigger, global, random)
      [] initializer = "init_flash_fade" -> init_flash_fade(trigger, global, random)
      [] initializer = "init_flash_rainbow" -> init_flash_rainbow(trigger, global, random)
      [] OTHER -> [trigger |-> trigger, global |-> global]

\* a variant whose fade-out progress runs forward like the fade-in
get_trigger_fade_progress_forward(trigger) ==
    LET is_fade_in == get_current(trigger.frames) < trigger.transition_frame
        progress == IF is_fade_in THEN Progression_new(trigger.transition_frame)
                    ELSE Progression_new(trigger.frames.total - trigger.transition_frame)
        transition_frame == IF is_fade_in THEN 0 ELSE trigger.transition_frame
    IN  set_current(progress, get_current(trigger.frames) - transition_frame)

get_trigger_fade_progress(trigger) ==
    LET is_fade_in == get_current(trigger.frames) < trigger.transition_frame
        progress == IF is_fade_in THEN Progression_new(trigger.transition_frame)
                    ELSE reverse_direction(
                             Progression_new(trigger.frames.total - trigger.transition_frame))
        transition_frame == IF is_fade_in THEN 0 ELSE trigger.transition_frame
    IN  set_current(progress, get_current(trigger.frames) - transition_frame)

\* flash: every led of the segment is interpolated toward the trigger colour
flash_panics(trigger, seg) ==
    Len(seg) > 0 /\ lerp_with_panics(get_trigger_fade_progress(trigger))

flash(trigger, seg) ==
    LET progress == get_trigger_fade_progress(trigger)
    IN  [i \in 1..Len(seg) |-> lerp_with(seg[i], trigger.color, progress)]

\* the led indices (0-based) first_led_index .. last_led_index - 1, each modulo the length
shot_indices(first_led_index, shot_width, len) ==
    {(first_led_index + k) % len : k \in 0..(shot_width - 1)}

color_pulse_panics(trigger, seg) ==
    Len(seg) = 0 \/ lerp_with_panics(get_trigger_fade_progress(trigger))

color_pulse(trigger, seg) ==
    LET progress == get_trigger_fade_progress(trigger)
        first_led_index == trigger.offset \div Len(seg)
        shot_width == Max(1, trigger.pixels_per_pixel_group)
        hit == shot_indices(first_led_index, shot_width, Len(seg))
    IN  [i \in 1..Len(seg) |->
            IF (i - 1) \in hit THEN lerp_with(seg[i], trigger.color, progress) ELSE seg[i]]

color_shot_panics(trigger, seg) ==
    Len(seg) = 0 \/ MAX_OFFSET \div Len(seg) = 0

\* color_shot that holds the shot at the starting offset
color_shot_held(trigger, seg) ==
    LET first_led_index == trigger.offset \div (MAX_OFFSET \div Len(seg))
        hit == shot_indices(first_led_index, Max(1, trigger.pixels_per_pixel_group), Len(seg))
    IN  [i \in 1..Len(seg) |-> IF (i - 1) \in hit THEN trigger.color ELSE seg[i]]

color_shot(trigger, seg) ==
    LET current_offset == shift_offset(trigger.offset, trigger.frames, trigger.direction)
        offset_distance_between_leds == MAX_OFFSET \div Len(seg)
        first_led_index == current_offset \div offset_distance_between_leds
        shot_width == Max(1, trigger.pixels_per_pixel_group)
        hit == shot_indices(first_led_index, shot_width, Len(seg))
    IN  [i \in 1..Len(seg) |-> IF (i - 1) \in hit THEN trigger.color ELSE seg[i]]

\* the call f(self, segment) of Trigger::update
updater_panics(trigger, seg) ==
    CASE trigger.updater = "flash" -> flash_panics(trigger, seg)
      [] trigger.updater = "color_pulse" -> color_pulse_panics(trigger, seg)
      [] trigger.updater = "color_shot" -> color_shot_panics(trigger, seg)
      [] OTHER -> FALSE

run_updater(trigger, seg) ==
    CASE trigger.updater = "flash" -> flash(trigger, seg)
      [] trigger.updater = "color_pulse" -> color_pulse(trigger, seg)
      [] trigger.updater = "color_shot" -> color_shot(trigger, seg)
      [] OTHER -> seg

\* Trigger::update: the updater paints, then the trigger's own frame counter advances
Trigger_update(trigger, seg) ==
    [trigger |-> [trigger EXCEPT !.frames = increment(@)],
     segment |-> run_updater(trigger, seg)]

-----------------------------------------------------------------------------
(* trigger.rs: TriggerCollection *)

\* the palette shared by all triggers (GlobalParameters.rainbow)
TRIGGER_RAINBOW == <<C_RED, C_GREEN, C_BLUE>>

\* a time of n half frames in nanoseconds, rounded up to a whole microsecond
ns_of_half_frames(n) == ((n * 500000 + frame_rate - 1) \div frame_rate) * 1000

TriggerCollection_new(init, rate) ==
    [fade_rainbow |-> StatefulRainbow_new(init.rainbow, init.is_rainbow_forward),
     incremental_rainbow |-> StatefulRainbow_new(init.rainbow, init.is_rainbow_forward),
     frames |-> Progression_new(convert_ns_to_frames(init.duration_ns, rate)),
     triggers |-> <<>>]

\* ArrayVec::try_push: appends unless the vector holds its capacity; the error is dropped
\* a variant without the capacity check
try_push_unbounded(triggers, trigger) == Append(triggers, trigger)

\* a variant that makes room in a full collection by dropping its oldest trigger
try_push_evicting(triggers, trigger) ==
    IF Len(triggers) < MaxTriggers THEN Append(triggers, trigger)
    ELSE Append(Tail(triggers), trigger)

try_push(triggers, trigger) ==
    IF Len(triggers) < MaxTriggers THEN Append(triggers, trigger) ELSE triggers

\* the TimedRainbows view add_trigger hands to the initializer
timed_rainbows(c) ==
    [fade_rainbow |-> c.fade_rainbow,
     incremental_rainbow |-> c.incremental_rainbow,
     frames |-> c.frames]

\* TriggerCollection::add_trigger: the trigger built, and the collection after the call
add_trigger_built(c, init, random, id) ==
    LET behavior == get_behavior(init.mode)
        fresh == Trigger_new(init, current_rainbow_color(c), frame_rate, id)
        r == initialize(behavior[1], fresh, timed_rainbows(c), random)
    IN  [trigger |-> [r.trigger EXCEPT !.updater = behavior[2]], global |-> r.global]

add_trigger(c, init, random, id) ==
    LET built == add_trigger_built(c, init, random, id)
    IN  [fade_rainbow |-> built.global.fade_rainbow,
         incremental_rainbow |-> built.global.incremental_rainbow,
         frames |-> built.global.frames,
         triggers |-> try_push(c.triggers, built.trigger)]

\* the loop `for trigger in self.triggers.iter_mut() { trigger.update(segment) }`,
\* from index i on: the triggers and the segment after it, and whether an updater panicked
RECURSIVE update_each(_, _, _)
update_each(triggers, seg, i) ==
    IF i > Len(triggers) THEN [triggers |-> triggers, segment |-> seg, panic |-> FALSE]
    ELSE IF updater_panics(triggers[i], seg)
         THEN [triggers |-> triggers, segment |-> seg, panic |-> TRUE]
         ELSE LET r == Trigger_update(triggers[i], seg)
              IN  update_each([triggers EXCEPT ![i] = r.trigger], r.segment, i + 1)

\* the predicate of retain: t.frames.get_current() < t.frames.total - 1 (usize arithmetic)
retain_underflows(t) == t.frames.total = 0

\* with total = 0 and wrapping arithmetic, total - 1 is usize::MAX and the test holds
\* a variant that keeps a trigger through its terminal frame
retain_keeps_through_terminal_frame(t) == get_current(t.frames) <= t.frames.total - 1

retain_keeps(t) ==
    IF retain_underflows(t) THEN TRUE ELSE get_current(t.frames) < t.frames.total - 1

retain(triggers) == SelectSeq(triggers, retain_keeps)

\* TriggerCollection::update
TriggerCollection_update(c, seg, checks) ==
    LET u == update_each(c.triggers, seg, 1)
        underflow == checks /\ \E i \in 1..Len(u.triggers) : retain_underflows(u.triggers[i])
        did_roll == checked_increment(c.frames)
    IN  IF u.panic \/ underflow
        THEN [collection |-> c, segment |-> u.segment, panic |-> TRUE]
        ELSE [collection |->
                  [fade_rainbow |-> IF did_roll THEN rainbow_increment(c.fade_rainbow)
                                    ELSE c.fade_rainbow,
                   incremental_rainbow |-> c.incremental_rainbow,
                   frames |-> increment(c.frames),
                   triggers |-> retain(u.triggers)],
              segment |-> u.segment,
              panic |-> FALSE]

-----------------------------------------------------------------------------
(* The trigger collection driven by add_trigger and update calls *)

RainbowModes == {"ColorPulseRainbow", "ColorShotRainbow", "FlashRainbow"}

\* the requests made of the collection: one per mode and per pair of fade-in and
\* fade-out times (in half frames)
TriggerRequests(modes, fades) ==
    {[mode |-> m,
      direction |-> "Positive",
      fade_in_time_ns |-> ns_of_half_frames(f[1]),
      fade_out_time_ns |-> ns_of_half_frames(f[2]),
      starting_offset |-> 0,
      pixels_per_pixel_group |-> 1] : m \in modes, f \in fades}

\* the components that a specification does not drive stay as they are built here
UnitsIdle ==
    /\ background = <<>>
    /\ bg_log = <<>>
    /\ foreground = <<>>
    /\ fg_log = <<>>
    /\ progression = <<>>
    /\ calls = <<>>
    /\ stateful_rainbow = <<>>
    /\ hc = <<>>
    /\ sender = <<>>
    /\ wave = <<>>

\* what the lower layers have painted into the segment before the triggers are drawn
LowerSegments == {[i \in 1..SegLen |-> c] : c \in {C_OFF}}

TCInitWith(directions) ==
    /\ \E fwd \in directions :
          tc = TriggerCollection_new(
                   [rainbow |-> TRIGGER_RAINBOW, is_rainbow_forward |-> fwd,
                    duration_ns |-> ns_of_half_frames(4)], frame_rate)
    /\ segment = [i \in 1..SegLen |-> C_OFF]
    /\ next_id = 0
    /\ overflow_checks = FALSE
    /\ panicked = FALSE
    /\ animation_array = <<>>
    /\ office_strip = [byte_buffer |-> <<>>, color_buffer |-> <<>>, strips |-> <<>>,
                       writes |-> <<>>, painter |-> [animation |-> 0, layer |-> "None"]]
    /\ timer_ch1 = [match2 |-> FALSE]
    /\ pins = <<>>
    /\ trace = <<>>
    /\ UnitsIdle

AddTrigger(init, random) ==
    /\ ~panicked
    /\ next_id < MaxAdds
    /\ tc' = add_trigger(tc, init, random, next_id)
    /\ next_id' = next_id + 1
    /\ UNCHANGED <<segment, overflow_checks, panicked, lcVars, unitVars>>

Update(lower) ==
    /\ ~panicked
    /\ LET r == TriggerCollection_update(tc, lower, overflow_checks)
       IN  /\ tc' = r.collection
           /\ segment' = r.segment
           /\ panicked' = r.panic
    /\ UNCHANGED <<next_id, overflow_checks, lcVars, unitVars>>

\* SpecTC: triggers of each updater and of two lifetimes (2 and 4 frames)
LifecycleRequests ==
    TriggerRequests({"ColorPulse", "ColorShot", "Flash", "FlashRainbow"},
                    {<<2, 2>>, <<4, 4>>})

TCInit == TCInitWith({TRUE})

TCNext ==
    \/ \E init \in LifecycleRequests, random \in RandomOffsets : AddTrigger(init, random)
    \/ \E lower \in LowerSegments : Update(lower)

SpecTC == TCInit /\ [][TCNext]_vars

\* SpecPalette: the modes that read or step the shared palette cursors, palette in
\* either direction
PaletteRequests ==
    TriggerRequests(RainbowModes \cup {"Flash", "FlashFade"}, {<<3, 3>>})

PaletteInit == TCInitWith(BOOLEAN)

PaletteNext ==
    \/ \E init \in PaletteRequests, random \in RandomOffsets : AddTrigger(init, random)
    \/ \E lower \in LowerSegments : Update(lower)

SpecPalette == PaletteInit /\ [][PaletteNext]_vars

-----------------------------------------------------------------------------
(* Properties of the trigger collection *)

\* the serial numbers of the live triggers
live_ids(c) == {c.triggers[i].id : i \in 1..Len(c.triggers)}

\* the live trigger with serial number id
live(c, id) == c.triggers[CHOOSE i \in 1..Len(c.triggers) : c.triggers[i].id = id]

\* a step that is an add_trigger call / a TriggerCollection::update call
IsAddStep == next_id' = next_id + 1

IsUpdateStep == next_id' = next_id

\* C4: a trigger whose frame Progression has total T >= 2 enters the collection at frame 0;
\* every update call runs it once (its frame counter, which counts those runs, goes up by
\* one); it is still in the collection after each of the first T-2 updates that follow the
\* add, is removed by the (T-1)-th, and a removed trigger never comes back.
C4_TriggerLifecycle ==
    [][/\ \A id \in live_ids(tc) :
            LET t == live(tc, id)
                T == t.frames.total
            IN  T >= 2 =>
                  /\ get_current(t.frames) <= T - 2
                  /\ IsUpdateStep /\ get_current(t.frames) < T - 2 =>
                        /\ id \in live_ids(tc')
                        /\ get_current(live(tc', id).frames) = get_current(t.frames) + 1
                  /\ IsUpdateStep /\ get_current(t.frames) = T - 2 => id \notin live_ids(tc')
                  /\ IsAddStep => id \in live_ids(tc') /\ live(tc', id).frames = t.frames
       /\ \A id \in live_ids(tc') \ live_ids(tc) :
            /\ IsAddStep /\ id = next_id
            /\ live(tc', id).frames.current = 0
      ]_vars

\* C4 witness: a trigger of 4 frames that is still live after 2 = T-2 updates
C4_Witness ==
    \E i \in 1..Len(tc.triggers) :
        tc.triggers[i].frames.total = 4 /\ get_current(tc.triggers[i].frames) = 2

\* C5: the collection never holds more than its capacity; an add_trigger call on a full
\* collection returns without a panic and leaves the number of live triggers unchanged.
C5_CapacityBound ==
    [][/\ Len(tc.triggers) <= MaxTriggers
       /\ Len(tc'.triggers) <= MaxTriggers
       /\ IsAddStep /\ Len(tc.triggers) = MaxTriggers =>
             Len(tc'.triggers) = MaxTriggers /\ ~panicked'
      ]_vars

\* C5 witness: the collection is full of triggers that are all still at frame 0, and one
\* more request than the capacity has been made: the last request met a full collection.
C5_Witness ==
    /\ Len(tc.triggers) = MaxTriggers
    /\ next_id = MaxTriggers + 1
    /\ \A i \in 1..Len(tc.triggers) :
           tc.triggers[i].id = i - 1 /\ tc.triggers[i].frames.current = 0
    /\ ~panicked

\* C6 as claimed: an add_trigger call on a full collection leaves the whole collection
\* state (live triggers, fade cursor, incremental cursor, duration Progression) unchanged.
C6_DroppedRequestIsNoOp ==
    [][IsAddStep /\ Len(tc.triggers) = MaxTriggers => tc' = tc]_vars

\* C7: a live trigger is removed only by the update on which its own frame counter reaches
\* its terminal frame; an add_trigger call (also one on a full collection) keeps it in its
\* place unchanged, and an update that keeps it changes only its frame counter: colour,
\* offset and direction stay as init left them.
C7_RunsToCompletion ==
    [][\A i \in 1..Len(tc.triggers) :
          LET t == tc.triggers[i]
          IN  /\ IsAddStep => i <= Len(tc'.triggers) /\ tc'.triggers[i] = t
              /\ IsUpdateStep /\ t.id \notin live_ids(tc') =>
                    get_current(increment(t.frames)) >= t.frames.total - 1
              /\ IsUpdateStep /\ t.id \in live_ids(tc') =>
                    live(tc', t.id) = [t EXCEPT !.frames = increment(@)]
      ]_vars

\* C7 witness: trigger 1 is alone in the collection, one update after it was added, and
\* three requests have been made: it has outlived a later add_trigger call and the removal
\* of another trigger.
C7_Witness ==
    /\ Len(tc.triggers) = 1
    /\ tc.triggers[1].id = 1
    /\ get_current(tc.triggers[1].frames) = 1
    /\ next_id = 3

\* C9: an add_trigger call with a palette-stepping mode gives the trigger the colour the
\* incremental cursor is on when the call begins and then advances the cursor by one
\* position; the call before it and the call after it therefore hand out neighbouring
\* palette colours.
C9_TakeThenAdvance ==
    [][\A init \in PaletteRequests, random \in RandomOffsets :
          AddTrigger(init, random) /\ init.mode \in RainbowModes =>
              /\ tc'.incremental_rainbow.position = increment(tc.incremental_rainbow.position)
              /\ Len(tc'.triggers) = Len(tc.triggers) + 1 =>
                    tc'.triggers[Len(tc'.triggers)].color = current_color(tc.incremental_rainbow)
              /\ add_trigger_built(tc, init, random, next_id).trigger.color
                    = current_color(tc.incremental_rainbow)
      ]_vars

\* C9 witness: the only two requests made were palette-stepping ones (the cursor has moved
\* twice); their triggers hold the first and the second colour of the palette walk
C9_Witness ==
    /\ next_id = 2
    /\ Len(tc.triggers) = 2
    /\ tc.triggers[1].color # tc.triggers[2].color
    /\ tc.triggers[1].color = current_color(rainbow_reset(tc.incremental_rainbow))
    /\ tc.triggers[2].color = peek_next_color(rainbow_reset(tc.incremental_rainbow))
    /\ get_current(tc.incremental_rainbow.position) = 2

\* C9 as claimed: the palette-stepping init advances the cursor first and the trigger gets
\* the colour the cursor is on after the advance.
C9_AdvanceThenTake ==
    [][\A init \in PaletteRequests, random \in RandomOffsets :
          /\ AddTrigger(init, random)
          /\ init.mode \in RainbowModes
          /\ Len(tc'.triggers) = Len(tc.triggers) + 1
          => tc'.triggers[Len(tc'.triggers)].color = current_color(tc'.incremental_rainbow)
      ]_vars

-----------------------------------------------------------------------------
(* One flash over dark lower layers *)

\* flash requests with a fade-in and a fade-out of a whole number of frames
FlashRequests ==
    {[mode |-> m,
      direction |-> "Positive",
      fade_in_time_ns |-> ns_of_half_frames(2 * f_in),
      fade_out_time_ns |-> ns_of_half_frames(2 * f_out),
      starting_offset |-> 0,
      pixels_per_pixel_group |-> 1] :
        m \in {"Flash", "FlashFade"}, f_in \in 1..MaxFadeFrames, f_out \in 1..MaxFadeFrames}

\* SpecFlash: the collection is updated every frame over an all-off segment; one flash
\* is requested at some frame and is the only trigger there ever is
FlashInit == TCInitWith(BOOLEAN)

FlashNext ==
    \/ \E init \in FlashRequests, random \in RandomOffsets :
           next_id = 0 /\ AddTrigger(init, random)
    \/ \E lower \in LowerSegments : Update(lower)

SpecFlash == FlashInit /\ [][FlashNext]_vars

\* the brightness of a segment: the sum of the channels of its leds
RECURSIVE Brightness(_)
Brightness(seg) ==
    IF seg = <<>> THEN 0
    ELSE Head(seg).r + Head(seg).g + Head(seg).b + Brightness(Tail(seg))

-----------------------------------------------------------------------------
(* leds.rs: PhysicalStrip, LogicalStrip and the byte and bit iterators *)
(* Indices are 0-based as in the source; sequences are 1-based, so the    *)
(* element at index i of a buffer is buffer[i + 1].                       *)

\* offsets with the entries of BRG and GBR exchanged
offsets_brg_for_gbr(color_order) ==
    CASE color_order = "RGB" -> <<0, 1, 2>>
      [] color_order = "RBG" -> <<0, 2, 1>>
      [] color_order = "GRB" -> <<1, 0, 2>>
      [] color_order = "BRG" -> <<2, 0, 1>>
      [] color_order = "GBR" -> <<1, 2, 0>>
      [] color_order = "BGR" -> <<2, 1, 0>>

\* ColorOrder::offsets
offsets(color_order) ==
    CASE color_order = "RGB" -> <<0, 1, 2>>
      [] color_order = "RBG" -> <<0, 2, 1>>
      [] color_order = "GRB" -> <<1, 0, 2>>
      [] color_order = "BRG" -> <<1, 2, 0>>
      [] color_order = "GBR" -> <<2, 0, 1>>
      [] color_order = "BGR" -> <<2, 1, 0>>

\* StripTimings, in nanoseconds
WS2811_ADAFRUIT == [zero_h |-> 500, one_h |-> 1200, full_cycle |-> 2500]
WS2812_ADAFRUIT == [zero_h |-> 400, one_h |-> 800, full_cycle |-> 1250]

WS2811_DELAY_LOOPS_BEFORE_SEND == 900

PhysicalStrip(led_count, reversed, color_order, strip_timings) ==
    [led_count |-> led_count, reversed |-> reversed, color_order |-> color_order,
     strip_timings |-> strip_timings]

\* the sum of led_count over the strips
RECURSIVE total_led_count(_)
total_led_count(strips) ==
    IF strips = <<>> THEN 0 ELSE Head(strips).led_count + total_led_count(Tail(strips))

\* LogicalStrip::new over zeroed buffers.  writes and painter are history: the
\* set_color_at_index calls of the current LightingController::update call, each with
\* the animation and the layer that made it.
LogicalStrip_new(strips) ==
    [byte_buffer |-> [i \in 1..(3 * total_led_count(strips)) |-> 0],
     color_buffer |-> [i \in 1..total_led_count(strips) |-> C_OFF],
     strips |-> strips,
     writes |-> <<>>,
     painter |-> [animation |-> 0, layer |-> "None"]]

get_color_at_index(logical_strip, index) == logical_strip.color_buffer[index + 1]

\* belongs_to that hands an index behind the last strip to the last strip
RECURSIVE belongs_to_from_last_strip(_, _, _, _)
belongs_to_from_last_strip(strips, index, i, start) ==
    IF i > Len(strips)
    THEN [found |-> FALSE, strip |-> PhysicalStrip(0, FALSE, "RGB", WS2811_ADAFRUIT),
          start |-> start]
    ELSE IF index < start + strips[i].led_count \/ i = Len(strips)
         THEN [found |-> TRUE, strip |-> strips[i], start |-> start]
         ELSE belongs_to_from_last_strip(strips, index, i + 1, start + strips[i].led_count)

\* LogicalStrip::belongs_to, from strip number i on with `start` leds before it
RECURSIVE belongs_to_from(_, _, _, _)
belongs_to_from(strips, index, i, start) ==
    IF i > Len(strips)
    THEN [found |-> FALSE, strip |-> PhysicalStrip(0, FALSE, "RGB", WS2811_ADAFRUIT),
          start |-> start]
    ELSE IF index < start + strips[i].led_count
         THEN [found |-> TRUE, strip |-> strips[i], start |-> start]
         ELSE belongs_to_from(strips, index, i + 1, start + strips[i].led_count)

belongs_to(logical_strip, index) == belongs_to_from(logical_strip.strips, index, 1, 0)

\* byte_index without the mirroring of a reversed strip
byte_index_unmirrored(logical_strip, index) == index

\* the index of the led's bytes in the byte buffer: mirrored within a reversed strip
byte_index(logical_strip, index) ==
    LET mirrored(b) ==
            IF b.strip.reversed
            THEN b.start + (b.strip.led_count - 1 - (index - b.start))
            ELSE index
    IN  mirrored(belongs_to(logical_strip, index))

\* set_color_at_index panics on an index outside the colour buffer, outside every
\* strip ("Index out of bounds") or outside the byte buffer
set_color_at_index_panics(logical_strip, index) ==
    \/ index >= Len(logical_strip.color_buffer)
    \/ ~belongs_to(logical_strip, index).found
    \/ 3 * byte_index(logical_strip, index) + 2 >= Len(logical_strip.byte_buffer)

\* the statement of set_color_at_index that panics, "none" when the call returns:
\* the store into color_buffer[index] comes first, then belongs_to, then the byte stores
set_color_at_index_panic(logical_strip, index) ==
    IF index >= Len(logical_strip.color_buffer) THEN "color_buffer[index]"
    ELSE IF ~belongs_to(logical_strip, index).found THEN "Index out of bounds"
    ELSE IF 3 * byte_index(logical_strip, index) + 2 >= Len(logical_strip.byte_buffer)
         THEN "_byte_buffer[(3 * index) + i]"
         ELSE "none"

\* what a panicking set_color_at_index leaves behind: the colour is stored before
\* belongs_to is asked, the bytes that fit are stored before the one that does not
set_color_at_index_halted(logical_strip, index, color) ==
    LET as_bytes(o) == [k \in 0..2 |-> IF k = o[1] THEN color.r
                                       ELSE IF k = o[2] THEN color.g ELSE color.b]
        bytes(ls, o, at) ==
            [ls EXCEPT !.byte_buffer =
                [j \in 1..Len(@) |-> IF j - 1 \in at..(at + 2) THEN as_bytes(o)[j - 1 - at]
                                     ELSE @[j]]]
    IN  IF index >= Len(logical_strip.color_buffer) THEN logical_strip
        ELSE IF ~belongs_to(logical_strip, index).found
             THEN [logical_strip EXCEPT !.color_buffer[index + 1] = color]
             ELSE bytes([logical_strip EXCEPT !.color_buffer[index + 1] = color],
                        offsets(belongs_to(logical_strip, index).strip.color_order),
                        3 * byte_index(logical_strip, index))

\* LogicalStrip::set_color_at_index
set_color_at_index(logical_strip, index, color) ==
    LET stored(o, at) ==
            [logical_strip EXCEPT
                !.color_buffer[index + 1] = color,
                !.byte_buffer[at + o[1] + 1] = color.r,
                !.byte_buffer[at + o[2] + 1] = color.g,
                !.byte_buffer[at + o[3] + 1] = color.b,
                !.writes = Append(@, [animation |-> logical_strip.painter.animation,
                                      layer |-> logical_strip.painter.layer,
                                      index |-> index, color |-> color])]
    IN  stored(offsets(belongs_to(logical_strip, index).strip.color_order),
               3 * byte_index(logical_strip, index))

\* the bytes ByteIter yields for one colour
color_bytes(color, color_order) ==
    LET o == offsets(color_order)
    IN  [k \in 1..3 |-> IF k - 1 = o[1] THEN color.r
                        ELSE IF k - 1 = o[2] THEN color.g ELSE color.b]

\* IntoByteIter::into_bytes / ByteIter::next over a sequence of colours
RECURSIVE into_bytes(_, _)
into_bytes(colors, color_order) ==
    IF colors = <<>> THEN <<>>
    ELSE color_bytes(Head(colors), color_order) \o into_bytes(Tail(colors), color_order)

\* the bits of one byte, most significant first (mask 128, 64, ... 1)
byte_bits(byte) == [k \in 1..8 |-> (byte \div (2 ^ (8 - k))) % 2 = 1]

\* IntoBitIter::into_bits / BitIter::next over a sequence of bytes
RECURSIVE into_bits(_)
into_bits(bytes) ==
    IF bytes = <<>> THEN <<>> ELSE byte_bits(Head(bytes)) \o into_bits(Tail(bytes))

\* the sequence in reverse order (Iterator::rev)
rev(s) == [i \in 1..Len(s) |-> s[Len(s) + 1 - i]]

\* LogicalStrip::send_all_sequential, from strip number i on: for every strip in turn
\* the pin it is sent to and the bits handed to send_bits
RECURSIVE send_all_sequential_from(_, _, _)
send_all_sequential_from(logical_strip, i, start_index) ==
    IF i > Len(logical_strip.strips) THEN <<>>
    ELSE LET strip == logical_strip.strips[i]
             end_index == start_index + strip.led_count
             current_strip_colors == SubSeq(logical_strip.color_buffer, start_index + 1, end_index)
             colors == IF strip.reversed THEN rev(current_strip_colors) ELSE current_strip_colors
             bits == into_bits(into_bytes(colors, strip.color_order))
         IN  <<[pin_index |-> i - 1, bits |-> bits]>>
             \o send_all_sequential_from(logical_strip, i + 1, end_index)

send_all_sequential(logical_strip) == send_all_sequential_from(logical_strip, 1, 0)

-----------------------------------------------------------------------------
(* hardware.rs: PeriodicTimer *)

\* the timer channel after periodic_start: counting, match flag clear
PeriodicTimer_started == [match2 |-> FALSE]

\* a variant that reports the match without clearing the flag
periodic_check_timeout_keeps_flag(timer) ==
    IF timer.match2 THEN [timer |-> timer, result |-> "Ok"]
    ELSE [timer |-> timer, result |-> "WouldBlock"]

\* a variant that never reports WouldBlock
periodic_check_timeout_always_ok(timer) ==
    [timer |-> [timer EXCEPT !.match2 = FALSE], result |-> "Ok"]

\* PeriodicTimer::periodic_check_timeout
periodic_check_timeout(timer) ==
    IF timer.match2
    THEN [timer |-> [timer EXCEPT !.match2 = FALSE], result |-> "Ok"]
    ELSE [timer |-> timer, result |-> "WouldBlock"]

-----------------------------------------------------------------------------
(* animations.rs: Animation.  Its methods carry the prefix Animation_ where *)
(* utility.rs or trigger.rs define another function of the same name.       *)
(* A method that paints returns [self, logical_strip, panic].               *)

\* Progression of animations.rs (Default: current 0, total 0)
Animation_Progression(total) == [current |-> 0, total |-> total]

Animation_increment(p) ==
    IF p.total = 0 THEN p ELSE [p EXCEPT !.current = (p.current + 1) % p.total]

\* checked_increment: the value returned; the Progression after it is Animation_increment(p)
Animation_checked_increment(p) == Animation_increment(p).current = 0

\* Color::lerp_with of animations.rs
Animation_lerp_with(self, to_color, factor) ==
    color_lerp(factor.current, 0, factor.total, self, to_color)

\* Animation::convert_ns_to_frames; the product is formed in microseconds as in
\* convert_ns_to_frames above
Animation_convert_ns_to_frames(nanos, rate) == ((nanos \div 1000) * rate) \div 1000000

AnimationState_default ==
    [offset |-> 0,
     frames |-> Animation_Progression(0),
     step_frames |-> Animation_Progression(0),
     current_rainbow_color_index |-> 0,
     has_been_triggered |-> FALSE,
     marquee_position_toggle |-> FALSE]

\* Animation::OFFSET_BETWEEN_LEDS for N_LED leds
OFFSET_BETWEEN_LEDS(n_led) == MAX_OFFSET \div n_led

\* Animation::new.  random_number_generator is the number of values drawn from the
\* SmallRng: its state after k draws is the k-th state of the seeded generator.
Animation_new(parameters, translation_array) ==
    [parameters |-> parameters,
     translation_array |-> translation_array,
     led_position_array |->
         [i \in 1..Len(translation_array) |->
             (i - 1) * OFFSET_BETWEEN_LEDS(Len(translation_array))],
     fg_state |-> AnimationState_default,
     bg_state |-> AnimationState_default,
     trigger_state |-> [current_rainbow_color_index |-> 0,
                        frames |-> Animation_Progression(0)],
     triggers |-> <<>>,
     random_number_generator |-> 0]

\* the fields an AnimationType selects
state_field(ani_type) ==
    CASE ani_type = "Background" -> "bg_state"
      [] ani_type = "Foreground" -> "fg_state"
      [] ani_type = "Trigger" -> "trigger_state"

parameters_field(ani_type) ==
    CASE ani_type = "Background" -> "bg"
      [] ani_type = "Foreground" -> "fg"
      [] ani_type = "Trigger" -> "trigger"

Animation_next_rainbow_index(self, ani_type) ==
    LET p == self.parameters[parameters_field(ani_type)]
        increment_by == IF p.is_rainbow_reversed THEN 1 ELSE -1
        length == Len(p.rainbow)
    IN  (self[state_field(ani_type)].current_rainbow_color_index + length + increment_by)
            % length

Animation_current_rainbow_color(self, ani_type) ==
    self.parameters[parameters_field(ani_type)].rainbow[
        self[state_field(ani_type)].current_rainbow_color_index + 1]

Animation_next_rainbow_color(self, ani_type) ==
    self.parameters[parameters_field(ani_type)].rainbow[
        Animation_next_rainbow_index(self, ani_type) + 1]

Animation_advance_rainbow_index(self, ani_type) ==
    [self EXCEPT ![state_field(ani_type)].current_rainbow_color_index =
        IF Len(self.parameters[parameters_field(ani_type)].rainbow) # 0
        THEN Animation_next_rainbow_index(self, ani_type) ELSE 0]

\* calculate_slow_fade_color: the colour returned and the animation after the call
Animation_calculate_slow_fade_color(self, ani_type) ==
    LET f == state_field(ani_type)
        frames == self[f].frames
    IN  IF frames.total = 0
        THEN [self |-> self, color |-> Animation_current_rainbow_color(self, ani_type)]
        ELSE LET did_roll == Animation_checked_increment(frames)
                 progress == Animation_increment(frames)
                 rolled(s1) ==
                     IF did_roll THEN Animation_advance_rainbow_index(s1, ani_type) ELSE s1
                 faded(s2) ==
                     [self |-> s2,
                      color |-> Animation_lerp_with(Animation_current_rainbow_color(s2, ani_type),
                                                    Animation_next_rainbow_color(s2, ani_type),
                                                    progress)]
             IN  faded(rolled([self EXCEPT ![f].frames = progress]))

\* the start of a painting method: nothing has panicked yet
painting(self, logical_strip) ==
    [self |-> self, logical_strip |-> logical_strip, panic |-> FALSE]

\* one logical_strip.set_color_at_index(index, color) call of a painting method
paint(r, index, color) ==
    IF r.panic THEN r
    ELSE IF set_color_at_index_panics(r.logical_strip, index) THEN [r EXCEPT !.panic = TRUE]
    ELSE [r EXCEPT !.logical_strip = set_color_at_index(@, index, color)]

\* fill_solid, from position i of the translation array on
RECURSIVE fill_solid_from(_, _, _)
fill_solid_from(r, color, i) ==
    IF i > Len(r.self.translation_array) THEN r
    ELSE fill_solid_from(paint(r, r.self.translation_array[i], color), color, i + 1)

fill_solid(self, color, logical_strip) == fill_solid_from(painting(self, logical_strip), color, 1)

\* fill_rainbow panics when it divides by a zero number of colours or a zero distance
Animation_fill_rainbow_panics(self, rainbow) ==
    LET total_num_rainbow_colors == Len(rainbow) * Max(self.parameters.bg.subdivisions, 1)
    IN  \/ total_num_rainbow_colors = 0
        \/ Len(self.led_position_array) > 0 /\ MAX_OFFSET \div total_num_rainbow_colors = 0

\* the colour fill_rainbow gives the led at led_position
Animation_fill_rainbow_color(self, start_offset, rainbow, led_position) ==
    LET max_offset == MAX_OFFSET
        rainbow_length == Len(rainbow)
        total_num_rainbow_colors == rainbow_length * Max(self.parameters.bg.subdivisions, 1)
        distance_between_colors == max_offset \div total_num_rainbow_colors
        shifted_position == (led_position + max_offset - start_offset) % max_offset
        rainbow_bucket == shifted_position \div distance_between_colors
        bucket_start == rainbow_bucket * distance_between_colors
        factor == shifted_position - bucket_start
        start_color == rainbow[(rainbow_bucket % rainbow_length) + 1]
        end_color == rainbow[((rainbow_bucket + 1) % rainbow_length) + 1]
    IN  color_lerp(factor, 0, distance_between_colors, start_color, end_color)

RECURSIVE Animation_fill_rainbow_from(_, _, _, _)
Animation_fill_rainbow_from(r, start_offset, rainbow, i) ==
    IF i > Len(r.self.led_position_array) THEN r
    ELSE Animation_fill_rainbow_from(
             paint(r, r.self.translation_array[i],
                   Animation_fill_rainbow_color(r.self, start_offset, rainbow,
                                                r.self.led_position_array[i])),
             start_offset, rainbow, i + 1)

Animation_fill_rainbow(self, start_offset, rainbow, logical_strip) ==
    LET s1 == [self EXCEPT !.bg_state.current_rainbow_color_index = 0]
    IN  IF Animation_fill_rainbow_panics(self, rainbow)
        THEN [self |-> s1, logical_strip |-> logical_strip, panic |-> TRUE]
        ELSE Animation_fill_rainbow_from(painting(s1, logical_strip), start_offset, rainbow, 1)

\* fill_marquee takes led_index modulo twice the pip length: a zero pip length panics
Animation_fill_marquee_panics(self) ==
    Len(self.translation_array) > 0 /\ self.parameters.fg.num_pixels_per_marquee_pip = 0

RECURSIVE Animation_fill_marquee_from(_, _, _)
Animation_fill_marquee_from(r, color, led_index) ==
    IF led_index >= Len(r.self.translation_array) THEN r
    ELSE LET pip == r.self.parameters.fg.num_pixels_per_marquee_pip
             subpip_number == led_index % (pip * 2)
             toggle == r.self.fg_state.marquee_position_toggle
             lit == \/ subpip_number < pip /\ toggle
                    \/ subpip_number >= pip /\ ~toggle
         IN  Animation_fill_marquee_from(
                 IF lit THEN paint(r, r.self.translation_array[led_index + 1], color) ELSE r,
                 color, led_index + 1)

Animation_fill_marquee(self, color, logical_strip) ==
    IF Animation_fill_marquee_panics(self)
    THEN [self |-> self, logical_strip |-> logical_strip, panic |-> TRUE]
    ELSE Animation_fill_marquee_from(painting(self, logical_strip), color, 0)

\* Backgrounds

update_bg_no_background(self, logical_strip) == fill_solid(self, C_OFF, logical_strip)

update_bg_solid(self, logical_strip) ==
    LET s1 == IF self.bg_state.has_been_triggered
              THEN [Animation_advance_rainbow_index(self, "Background")
                        EXCEPT !.bg_state.has_been_triggered = FALSE]
              ELSE self
        color == s1.parameters.bg.rainbow[s1.bg_state.current_rainbow_color_index + 1]
    IN  fill_solid(s1, color, logical_strip)

\* the loop of update_bg_solid_fade: calculate_slow_fade_color is called for every led
RECURSIVE update_bg_solid_fade_from(_, _)
update_bg_solid_fade_from(r, i) ==
    IF i > Len(r.self.translation_array) THEN r
    ELSE LET painted(c) ==
                 paint([r EXCEPT !.self = c.self], r.self.translation_array[i], c.color)
         IN  update_bg_solid_fade_from(
                 painted(Animation_calculate_slow_fade_color(r.self, "Background")), i + 1)

update_bg_solid_fade(self, logical_strip) ==
    LET s1 == IF self.bg_state.has_been_triggered
              THEN [Animation_advance_rainbow_index(self, "Background")
                        EXCEPT !.bg_state.frames.current = 0,
                               !.bg_state.has_been_triggered = FALSE]
              ELSE self
    IN  update_bg_solid_fade_from(painting(s1, logical_strip), 1)

\* the trigger condition of the rainbow fills: a random offset is drawn
handle_fill_rainbow_trigger(self, random) ==
    IF self.bg_state.has_been_triggered
    THEN [self EXCEPT !.bg_state.offset = random,
                      !.bg_state.has_been_triggered = FALSE,
                      !.random_number_generator = @ + 1]
    ELSE self

update_bg_fill_rainbow(self, logical_strip, random) ==
    LET s1 == handle_fill_rainbow_trigger(self, random)
    IN  Animation_fill_rainbow(s1, s1.bg_state.offset, s1.parameters.bg.rainbow, logical_strip)

\* update_bg_fill_rainbow_rotate: `color_start_offset += ... as u16` is a u16 addition,
\* which panics on overflow when overflow checks are on and wraps when they are off
update_bg_fill_rainbow_rotate(self, logical_strip, random, checks) ==
    LET s0 == [self EXCEPT !.bg_state.frames = Animation_increment(@)]
        s1 == handle_fill_rainbow_trigger(s0, random)
        frames == s1.bg_state.frames
        sum == IF frames.total # 0
               THEN s1.bg_state.offset + AsU16((MAX_OFFSET * frames.current) \div frames.total)
               ELSE s1.bg_state.offset
        color_start_offset == AsU16(sum) % MAX_OFFSET
    IN  IF sum > 65535 /\ checks
        THEN [self |-> s1, logical_strip |-> logical_strip, panic |-> TRUE]
        ELSE Animation_fill_rainbow(s1, color_start_offset, s1.parameters.bg.rainbow,
                                    logical_strip)

update_bg(self, logical_strip, random, checks) ==
    CASE self.parameters.bg.mode = "NoBackground" -> update_bg_no_background(self, logical_strip)
      [] self.parameters.bg.mode = "Solid" -> update_bg_solid(self, logical_strip)
      [] self.parameters.bg.mode = "SolidFade" -> update_bg_solid_fade(self, logical_strip)
      [] self.parameters.bg.mode = "FillRainbow" ->
             update_bg_fill_rainbow(self, logical_strip, random)
      [] self.parameters.bg.mode = "FillRainbowRotate" ->
             update_bg_fill_rainbow_rotate(self, logical_strip, random, checks)

\* Foregrounds

increment_marquee_step(self) ==
    LET did_roll == Animation_checked_increment(self.fg_state.step_frames)
    IN  [self EXCEPT !.fg_state.step_frames = Animation_increment(@),
                     !.fg_state.marquee_position_toggle = IF did_roll THEN ~@ ELSE @]

\* the handling of a Foreground trigger by the marquee modes
handle_marquee_trigger(self, resets_frames) ==
    IF self.fg_state.has_been_triggered
    THEN [Animation_advance_rainbow_index(self, "Foreground")
              EXCEPT !.fg_state.frames.current = IF resets_frames THEN 0 ELSE @,
                     !.fg_state.has_been_triggered = FALSE]
    ELSE self

\* the fixed marquees derive marquee_position_toggle from the offset
set_marquee_toggle_from_offset(self) ==
    LET pip_distance == (MAX_OFFSET \div Len(self.translation_array))
                            * Max(self.parameters.fg.num_pixels_per_marquee_pip, 1)
        led_bucket == self.fg_state.offset \div Max(pip_distance, 1)
    IN  [self EXCEPT !.fg_state.marquee_position_toggle = (led_bucket % 2 = 0)]

update_fg_no_foreground(self, logical_strip) == painting(self, logical_strip)

update_fg_marquee_solid(self, logical_strip) ==
    LET s1 == handle_marquee_trigger(self, FALSE)
        color == Animation_current_rainbow_color(s1, "Foreground")
    IN  Animation_fill_marquee(increment_marquee_step(s1), color, logical_strip)

update_fg_marquee_solid_fixed(self, logical_strip) ==
    LET s1 == set_marquee_toggle_from_offset(handle_marquee_trigger(self, FALSE))
    IN  Animation_fill_marquee(s1, Animation_current_rainbow_color(s1, "Foreground"),
                               logical_strip)

update_fg_marquee_fade(self, logical_strip) ==
    LET filled(c) == Animation_fill_marquee(c.self, c.color, logical_strip)
    IN  filled(Animation_calculate_slow_fade_color(
                   increment_marquee_step(handle_marquee_trigger(self, TRUE)), "Foreground"))

update_fg_marquee_fade_fixed(self, logical_strip) ==
    LET filled(c) == Animation_fill_marquee(c.self, c.color, logical_strip)
    IN  filled(Animation_calculate_slow_fade_color(
                   set_marquee_toggle_from_offset(handle_marquee_trigger(self, TRUE)),
                   "Foreground"))

\* update_fg_vu_meter has an empty body
update_fg_vu_meter(self, logical_strip) == painting(self, logical_strip)

update_fg(self, logical_strip) ==
    CASE self.parameters.fg.mode = "NoForeground" -> update_fg_no_foreground(self, logical_strip)
      [] self.parameters.fg.mode = "MarqueeSolid" -> update_fg_marquee_solid(self, logical_strip)
      [] self.parameters.fg.mode = "MarqueeSolidFixed" ->
             update_fg_marquee_solid_fixed(self, logical_strip)
      [] self.parameters.fg.mode = "MarqueeFade" -> update_fg_marquee_fade(self, logical_strip)
      [] self.parameters.fg.mode = "MarqueeFadeFixed" ->
             update_fg_marquee_fade_fixed(self, logical_strip)
      [] self.parameters.fg.mode = "VUMeter" -> update_fg_vu_meter(self, logical_strip)

\* Triggers

\* Animation::add_trigger: try_push into the ArrayVec of MAX_NUM_ACTIVE_TRIGGERS slots
\* (the model's capacity is MaxTriggers)
Animation_add_trigger(self, trigger_state) ==
    [self EXCEPT !.triggers = try_push(@, trigger_state)]

\* the fade-in loop of update_tg_flash: every led goes from what the strip holds toward
\* the trigger colour
RECURSIVE flash_fade_in_from(_, _, _)
flash_fade_in_from(r, ts, i) ==
    IF i > Len(r.self.translation_array) \/ r.panic THEN r
    ELSE LET led_index == r.self.translation_array[i]
             in_max == ts.total_fade_in_frames - 1
         IN  IF color_lerp_panics(0, in_max) THEN [r EXCEPT !.panic = TRUE]
             ELSE flash_fade_in_from(
                      paint(r, led_index,
                            color_lerp(ts.current_frame, 0, in_max,
                                       get_color_at_index(r.logical_strip, led_index),
                                       ts.color)),
                      ts, i + 1)

\* the fade-out loop: from the trigger colour toward what the strip holds.
\* total_fade_out_frames - 1 is a u32 subtraction: at 0 it panics with overflow checks
\* and wraps to u32::MAX without, which `as i32` turns into -1.
RECURSIVE flash_fade_out_from(_, _, _, _)
flash_fade_out_from(r, ts, checks, i) ==
    IF i > Len(r.self.translation_array) \/ r.panic THEN r
    ELSE LET led_index == r.self.translation_array[i]
             in_max == IF ts.total_fade_out_frames = 0 THEN -1
                       ELSE ts.total_fade_out_frames - 1
         IN  IF (ts.total_fade_out_frames = 0 /\ checks) \/ color_lerp_panics(0, in_max)
             THEN [r EXCEPT !.panic = TRUE]
             ELSE flash_fade_out_from(
                      paint(r, led_index,
                            color_lerp(ts.current_frame - ts.total_fade_in_frames, 0, in_max,
                                       ts.color,
                                       get_color_at_index(r.logical_strip, led_index))),
                      ts, checks, i + 1)

\* update_tg_flash for the trigger at trigger_index (0-based)
update_tg_flash(r, trigger_index, checks) ==
    IF trigger_index >= Len(r.self.triggers) THEN r
    ELSE LET ts == r.self.triggers[trigger_index + 1]
             current_frame == ts.current_frame + 1
             done == current_frame >= ts.total_fade_in_frames + ts.total_fade_out_frames
             counted(painted) ==
                 IF painted.panic THEN painted
                 ELSE [painted EXCEPT !.self.triggers =
                          IF done
                          THEN SubSeq(@, 1, trigger_index) \o SubSeq(@, trigger_index + 2, Len(@))
                          ELSE [@ EXCEPT ![trigger_index + 1].current_frame = current_frame]]
         IN  counted(IF ts.current_frame < ts.total_fade_in_frames
                     THEN flash_fade_in_from(r, ts, 1)
                     ELSE flash_fade_out_from(r, ts, checks, 1))

\* update_tg_color_pulse and update_tg_color_shot are todo!(): they panic
update_tg_todo(r) == [r EXCEPT !.panic = TRUE]

\* the loop of update_triggers, `for trigger_index in (0..len).rev()`, from
\* trigger_index down to 0
RECURSIVE update_triggers_from(_, _, _)
update_triggers_from(r, trigger_index, checks) ==
    IF trigger_index < 0 \/ r.panic THEN r
    ELSE LET mode == r.self.triggers[trigger_index + 1].mode
             after ==
                 CASE mode \in {"ColorPulse", "ColorPulseSlowFade", "ColorPulseRainbow",
                                "ColorShot", "ColorShotSlowFade", "ColorShotRainbow"} ->
                          update_tg_todo(r)
                   [] mode \in {"Flash", "FlashSlowFade", "FlashRainbow"} ->
                          update_tg_flash(r, trigger_index, checks)
                   [] OTHER -> r
         IN  update_triggers_from(after, trigger_index - 1, checks)

update_triggers(self, logical_strip, checks) ==
    LET s1 == [self EXCEPT !.trigger_state.frames = Animation_increment(@)]
    IN  update_triggers_from(painting(s1, logical_strip), Len(s1.triggers) - 1, checks)

\* the layer whose set_color_at_index calls follow (history)
layer(r, name) == [r EXCEPT !.logical_strip.painter.layer = name]

\* a variant that paints the foreground before the background
Animation_update_foreground_first(self, logical_strip, random, checks) ==
    LET then_bg(fg) ==
            IF fg.panic THEN fg
            ELSE update_bg(fg.self, layer(fg, "Background").logical_strip, random, checks)
        then_triggers(bg) ==
            IF bg.panic THEN bg
            ELSE update_triggers(bg.self, layer(bg, "Trigger").logical_strip, checks)
    IN  then_triggers(then_bg(
            update_fg(self, layer(painting(self, logical_strip), "Foreground").logical_strip)))

\* Animatable::update: background, then foreground, then triggers
Animation_update(self, logical_strip, random, checks) ==
    LET then_fg(bg) ==
            IF bg.panic THEN bg
            ELSE update_fg(bg.self, layer(bg, "Foreground").logical_strip)
        then_triggers(fg) ==
            IF fg.panic THEN fg
            ELSE update_triggers(fg.self, layer(fg, "Trigger").logical_strip, checks)
    IN  then_triggers(then_fg(
            update_bg(self, layer(painting(self, logical_strip), "Background").logical_strip,
                      random, checks)))

\* the AnimationTriggerState values Animatable::trigger builds
init_color_pulse_trigger(self, params, frame_rate_hz, random_offset, color) ==
    [mode |-> params.mode,
     current_frame |-> 0,
     total_fade_in_frames |-> Animation_convert_ns_to_frames(params.fade_in_time_ns, frame_rate_hz),
     total_fade_out_frames |-> Animation_convert_ns_to_frames(params.fade_out_time_ns, frame_rate_hz),
     direction |-> "Stopped",
     current_offset |-> random_offset,
     color |-> color]

init_color_shot_trigger(self, params, frame_rate_hz, random_offset, color) ==
    LET between == OFFSET_BETWEEN_LEDS(Len(self.translation_array))
    IN  [mode |-> params.mode,
         current_frame |-> 0,
         total_fade_in_frames |-> Animation_convert_ns_to_frames(params.step_time_ns, frame_rate_hz),
         total_fade_out_frames |-> 0,
         direction |-> params.direction,
         current_offset |-> (params.starting_offset \div between) * between,
         color |-> color]

init_flash_trigger(self, params, frame_rate_hz, random_offset, color) ==
    [mode |-> params.mode,
     current_frame |-> 0,
     total_fade_in_frames |-> Animation_convert_ns_to_frames(params.fade_in_time_ns, frame_rate_hz),
     total_fade_out_frames |-> Animation_convert_ns_to_frames(params.fade_out_time_ns, frame_rate_hz),
     direction |-> "Stopped",
     current_offset |-> 0,
     color |-> color]

\* the AnimationTriggerState for a mode that has one
init_trigger_state(self, params, frame_rate_hz, random_offset, color) ==
    CASE params.mode \in {"ColorPulse", "ColorPulseSlowFade", "ColorPulseRainbow"} ->
             init_color_pulse_trigger(self, params, frame_rate_hz, random_offset, color)
      [] params.mode \in {"ColorShot", "ColorShotSlowFade", "ColorShotRainbow"} ->
             init_color_shot_trigger(self, params, frame_rate_hz, random_offset, color)
      [] params.mode \in {"Flash", "FlashSlowFade", "FlashRainbow"} ->
             init_flash_trigger(self, params, frame_rate_hz, random_offset, color)

\* a variant in which a Background request also flags the foreground
Animation_trigger_flags_both(self, params, frame_rate_hz, random) ==
    LET s0 == [self EXCEPT !.random_number_generator = @ + 1]
    IN  IF params.mode \in {"Background", "Foreground"}
        THEN [s0 EXCEPT !.bg_state.has_been_triggered = TRUE,
                        !.fg_state.has_been_triggered = TRUE]
        ELSE s0

\* Animatable::trigger; random is the value next_u32() % MAX_OFFSET of this call
Animation_trigger(self, params, frame_rate_hz, random) ==
    LET s0 == [self EXCEPT !.random_number_generator = @ + 1]
        color_now == Animation_current_rainbow_color(s0, "Trigger")
        slow_fade == Animation_calculate_slow_fade_color(s0, "Trigger")
    IN  CASE params.mode = "NoTrigger" -> s0
          [] params.mode = "Background" -> [s0 EXCEPT !.bg_state.has_been_triggered = TRUE]
          [] params.mode = "Foreground" -> [s0 EXCEPT !.fg_state.has_been_triggered = TRUE]
          [] params.mode \in {"ColorPulse", "ColorShot", "Flash"} ->
                 Animation_add_trigger(s0,
                     init_trigger_state(s0, params, frame_rate_hz, random, color_now))
          [] params.mode \in {"ColorPulseSlowFade", "ColorShotSlowFade", "FlashSlowFade"} ->
                 Animation_add_trigger(slow_fade.self,
                     init_trigger_state(s0, params, frame_rate_hz, random, slow_fade.color))
          [] params.mode \in {"ColorPulseRainbow", "ColorShotRainbow", "FlashRainbow"} ->
                 Animation_add_trigger(Animation_advance_rainbow_index(s0, "Trigger"),
                     init_trigger_state(s0, params, frame_rate_hz, random, color_now))

init_total_animation_duration_frames(self, frame_rate_hz) ==
    [self EXCEPT
        !.bg_state.frames.total =
            Animation_convert_ns_to_frames(self.parameters.bg.duration_ns, frame_rate_hz),
        !.fg_state.frames.total =
            Animation_convert_ns_to_frames(self.parameters.fg.duration_ns, frame_rate_hz),
        !.trigger_state.frames.total =
            Animation_convert_ns_to_frames(self.parameters.trigger.duration_ns, frame_rate_hz)]

init_total_animation_step_frames(self, frame_rate_hz) ==
    [self EXCEPT
        !.bg_state.step_frames.total = 0,
        !.fg_state.step_frames.total =
            Animation_convert_ns_to_frames(self.parameters.fg.step_time_ns, frame_rate_hz)]

-----------------------------------------------------------------------------
(* lighting_controller: LightingController over the Animations, the LogicalStrip *)
(* and the frame timer                                                           *)
(* lighting_controller.rs declares the types only: LightingController::new,       *)
(* update and trigger follow the documented behaviour of the controller and the   *)
(* calls the examples make; everything they call is the code above.               *)

\* LightingController::new: the frame counts of every animation are computed from the
\* frame rate and the frame timer is started
LightingController_new(strip, anims, frame_rate_hz) ==
    [logical_strip |-> strip,
     animations |->
         [i \in 1..Len(anims) |->
             init_total_animation_step_frames(
                 init_total_animation_duration_frames(anims[i], frame_rate_hz),
                 frame_rate_hz)],
     timer |-> PeriodicTimer_started]

\* one entry of the trace
Event(op, arg) == [op |-> op, arg |-> arg]

\* the loop over the animations of LightingController::update, from animation i on
RECURSIVE update_animations_from(_, _, _, _)
update_animations_from(r, i, randoms, checks) ==
    IF i > Len(r.animations) \/ r.panic THEN r
    ELSE LET strip == [r.logical_strip EXCEPT !.painter.animation = i]
             updated(u) ==
                 [animations |-> [r.animations EXCEPT ![i] = u.self],
                  logical_strip |-> u.logical_strip,
                  panic |-> u.panic,
                  trace |-> IF u.panic THEN r.trace ELSE Append(r.trace, Event("update", i))]
         IN  update_animations_from(
                 updated(Animation_update(r.animations[i], strip, randoms[i], checks)),
                 i + 1, randoms, checks)

\* LightingController::update: when the frame timer has matched, every animation is
\* updated and the strip is sent; otherwise the call returns at once
LightingController_update(anims, strip, timer, wire, randoms, checks) ==
    LET check == periodic_check_timeout(timer)
        checked == <<Event("periodic_check_timeout", check.result)>>
        sending(u, sent) ==
            [animations |-> u.animations, logical_strip |-> u.logical_strip,
             timer |-> check.timer,
             pins |-> [p \in 1..Len(sent) |-> sent[p].bits],
             trace |-> u.trace
                       \o [p \in 1..Len(sent) |-> Event("send_bits", sent[p].pin_index)],
             panic |-> FALSE]
        frame(u) ==
            IF u.panic
            THEN [animations |-> u.animations, logical_strip |-> u.logical_strip,
                  timer |-> check.timer, pins |-> wire, trace |-> u.trace, panic |-> TRUE]
            ELSE sending(u, send_all_sequential(u.logical_strip))
    IN  IF check.result # "Ok"
        THEN [animations |-> anims, logical_strip |-> strip, timer |-> check.timer,
              pins |-> wire, trace |-> checked, panic |-> FALSE]
        ELSE frame(update_animations_from(
                       [animations |-> anims, logical_strip |-> [strip EXCEPT !.writes = <<>>],
                        panic |-> FALSE, trace |-> checked],
                       1, randoms, checks))

\* LightingController::trigger passes the request to the animation addressed
LightingController_trigger(anims, index, params, frame_rate_hz, random) ==
    [anims EXCEPT ![index] = Animation_trigger(@, params, frame_rate_hz, random)]

-----------------------------------------------------------------------------
(* The lighting controller driven by its main loop *)

\* two physical strips, the second one reversed
LC_STRIPS ==
    <<PhysicalStrip(StripLeds, FALSE, "BRG", WS2812_ADAFRUIT),
      PhysicalStrip(StripLeds, TRUE, "GRB", WS2812_ADAFRUIT)>>

\* utility.rs default_translation_array: SIZE indices from start_at on
default_translation_array(start_at, size) == [i \in 1..size |-> start_at + i - 1]

\* the parameters of an animation with the given background and foreground modes
AnimationParameters(bg_mode, fg_mode) ==
    [bg |-> [mode |-> bg_mode, rainbow |-> <<C_RED, C_GREEN>>, direction |-> "Positive",
             is_rainbow_reversed |-> FALSE, duration_ns |-> ns_of_half_frames(4),
             subdivisions |-> 1],
     fg |-> [mode |-> fg_mode, rainbow |-> <<C_BLUE, C_WHITE>>, direction |-> "Positive",
             is_rainbow_reversed |-> FALSE, duration_ns |-> ns_of_half_frames(4),
             step_time_ns |-> ns_of_half_frames(4), subdivisions |-> 1,
             num_pixels_per_marquee_pip |-> 1],
     trigger |-> [rainbow |-> <<C_WHITE, C_GREEN, C_BLUE>>, is_rainbow_reversed |-> FALSE,
                  duration_ns |-> ns_of_half_frames(4)]]

\* the background and foreground modes of the first animation
LayerModes ==
    {<<"Solid", "MarqueeSolid">>, <<"SolidFade", "MarqueeSolidFixed">>,
     <<"FillRainbowRotate", "MarqueeFadeFixed">>, <<"NoBackground", "NoForeground">>}

\* the requests made through LightingController::trigger
LCTriggerRequests ==
    {[mode |-> m, direction |-> "Positive", step_time_ns |-> ns_of_half_frames(4),
      fade_in_time_ns |-> ns_of_half_frames(4), fade_out_time_ns |-> ns_of_half_frames(4),
      starting_offset |-> 0] :
        m \in {"NoTrigger", "Background", "Foreground", "Flash", "ColorPulse"}}

LCInit ==
    /\ \E modes \in LayerModes :
         LET lc == LightingController_new(
                       LogicalStrip_new(LC_STRIPS),
                       <<Animation_new(AnimationParameters(modes[1], modes[2]),
                                       default_translation_array(0, 2 * StripLeds)),
                         Animation_new(AnimationParameters("FillRainbow", "MarqueeFade"),
                                       default_translation_array(StripLeds, StripLeds))>>,
                       frame_rate)
         IN  /\ animation_array = lc.animations
             /\ office_strip = lc.logical_strip
             /\ timer_ch1 = lc.timer
    /\ pins = [p \in 1..Len(LC_STRIPS) |-> <<>>]
    /\ trace = <<>>
    /\ overflow_checks \in BOOLEAN
    /\ panicked = FALSE
    /\ tc = TriggerCollection_new(
                [rainbow |-> TRIGGER_RAINBOW, is_rainbow_forward |-> TRUE, duration_ns |-> 0],
                frame_rate)
    /\ segment = <<>>
    /\ next_id = 0
    /\ UnitsIdle

\* the frame timer reaches its match point
TimerMatch ==
    /\ ~panicked
    /\ timer_ch1' = [timer_ch1 EXCEPT !.match2 = TRUE]
    /\ UNCHANGED <<animation_array, office_strip, pins, trace, tcVars, overflow_checks, panicked,
                   unitVars>>

\* lc.update(&mut hc) of the main loop
LCUpdate(randoms) ==
    /\ ~panicked
    /\ \E r \in {LightingController_update(animation_array, office_strip, timer_ch1, pins,
                                            randoms, overflow_checks)} :
           /\ animation_array' = r.animations
           /\ office_strip' = r.logical_strip
           /\ timer_ch1' = r.timer
           /\ pins' = r.pins
           /\ trace' = r.trace
           /\ panicked' = r.panic
    /\ UNCHANGED <<tcVars, overflow_checks, unitVars>>

\* lc.trigger(index, &params) between two update calls
LCTrigger(index, params, random) ==
    /\ ~panicked
    /\ animation_array[index].random_number_generator < MaxDraws
    /\ animation_array' =
           LightingController_trigger(animation_array, index, params, frame_rate, random)
    /\ UNCHANGED <<office_strip, timer_ch1, pins, trace, tcVars, overflow_checks, panicked,
                   unitVars>>

LCNext ==
    \/ TimerMatch
    \/ \E random \in RandomOffsets : LCUpdate(<<random, random>>)
    \/ \E params \in LCTriggerRequests, random \in RandomOffsets :
           LCTrigger(1, params, random)

SpecLC == LCInit /\ [][LCNext]_vars

-----------------------------------------------------------------------------
(* Properties of the lighting controller *)

\* the bits send_all_sequential hands to each pin for the strip
strip_bits(strip) ==
    LET sent == send_all_sequential(strip) IN [p \in 1..Len(sent) |-> sent[p].bits]

\* what an update call that renders a frame does, in order: the timer check, every
\* animation once, then every pin
FrameTrace ==
    <<Event("periodic_check_timeout", "Ok")>>
    \o [i \in 1..Len(animation_array) |-> Event("update", i)]
    \o [p \in 1..Len(office_strip.strips) |-> Event("send_bits", p - 1)]

\* what an update call does that finds the timer not yet at its match point
IdleTrace == <<Event("periodic_check_timeout", "WouldBlock")>>

\* C1: an update call made when the frame timer has matched consumes the match flag and,
\* unless an animation panics, updates every animation exactly once, in order, and then
\* sends the whole strip once, pin after pin: the bits on the pins are those of the colour
\* buffer as the last animation left it.  A further call before the timer matches again
\* finds the flag clear and does no work.
C1_MatchedUpdate ==
    [][\A random \in RandomOffsets :
          LCUpdate(<<random, random>>) =>
              /\ ~timer_ch1'.match2
              /\ timer_ch1.match2 /\ ~panicked' =>
                    /\ trace' = FrameTrace
                    /\ pins' = strip_bits(office_strip')
                    /\ \A i \in 1..Len(animation_array) :
                          animation_array'[i].trigger_state.frames =
                              Animation_increment(animation_array[i].trigger_state.frames)
              /\ ~timer_ch1.match2 =>
                    /\ trace' = IdleTrace
                    /\ animation_array' = animation_array
                    /\ pins' = pins
      ]_vars

\* C1 witness: the last update call rendered a frame and sent it; something is lit
C1_Witness ==
    /\ trace = FrameTrace
    /\ ~timer_ch1.match2
    /\ pins = strip_bits(office_strip)
    /\ \E p \in 1..Len(pins) : \E k \in 1..Len(pins[p]) : pins[p][k]

\* C2: an update call made while the frame timer has not reached its match point changes no
\* animation, leaves the colour buffer and the byte buffer as they are, drives no pin and
\* does not panic: all it does is the timer check.
C2_UnmatchedUpdate ==
    [][\A random \in RandomOffsets :
          LCUpdate(<<random, random>>) /\ ~timer_ch1.match2 =>
              /\ animation_array' = animation_array
              /\ office_strip'.color_buffer = office_strip.color_buffer
              /\ office_strip'.byte_buffer = office_strip.byte_buffer
              /\ pins' = pins
              /\ timer_ch1' = timer_ch1
              /\ ~panicked'
              /\ \A k \in 1..Len(trace') : trace'[k].op \notin {"update", "send_bits"}
      ]_vars

\* C2 witness: a frame has been sent, and the last update call found the timer not matched
C2_Witness ==
    /\ trace = IdleTrace
    /\ pins = strip_bits(office_strip)
    /\ \E p \in 1..Len(pins) : pins[p] # <<>>
    /\ ~panicked

LayerRank(name) ==
    CASE name = "Background" -> 1 [] name = "Foreground" -> 2 [] name = "Trigger" -> 3

\* write number i of the frame is by a later animation, or by the same animation and a
\* later layer, or by the same layer and later, than write number j
Above(w, i, j) ==
    \/ w[i].animation > w[j].animation
    \/ /\ w[i].animation = w[j].animation
       /\ \/ LayerRank(w[i].layer) > LayerRank(w[j].layer)
          \/ LayerRank(w[i].layer) = LayerRank(w[j].layer) /\ i >= j

\* C3: within an animation's update the background paints first, the foreground second
\* and the triggers last, and for every led the colour buffer holds what the highest
\* layer that painted the led wrote.
C3_LayerOrder ==
    LET w == office_strip.writes
    IN  /\ \A i, j \in 1..Len(w) :
              i < j /\ w[i].animation = w[j].animation =>
                  LayerRank(w[i].layer) <= LayerRank(w[j].layer)
        /\ \A i \in 1..Len(w) :
              (\A j \in 1..Len(w) : w[j].index = w[i].index => Above(w, i, j)) =>
                  office_strip.color_buffer[w[i].index + 1] = w[i].color

\* C3 witness: one led was painted by the background, the foreground and a trigger of the
\* first animation, each with another colour, and shows the trigger's colour
C3_Witness ==
    LET w == office_strip.writes
    IN  \E b, f, t \in 1..Len(w) :
           /\ w[b].animation = 1 /\ w[f].animation = 1 /\ w[t].animation = 1
           /\ w[b].layer = "Background" /\ w[f].layer = "Foreground" /\ w[t].layer = "Trigger"
           /\ w[b].index = w[f].index /\ w[f].index = w[t].index
           /\ w[b].color # w[f].color /\ w[f].color # w[t].color
           /\ \A j \in 1..Len(w) : w[j].index = w[t].index => j <= t
           /\ office_strip.color_buffer[w[t].index + 1] = w[t].color

\* C8 (amended): a trigger request with mode Background sets the has_been_triggered flag
\* of the background, one with mode Foreground that of the foreground, one with mode
\* NoTrigger neither; apart from the flag the request changes only the random number
\* generator, from which every request draws one value, and it adds no trigger.
C8_LayerRequests ==
    [][\A params \in LCTriggerRequests, random \in RandomOffsets :
          LCTrigger(1, params, random) =>
              LET before == [animation_array[1] EXCEPT !.random_number_generator = @ + 1]
                  after == animation_array'[1]
              IN  /\ params.mode = "Background" =>
                        after = [before EXCEPT !.bg_state.has_been_triggered = TRUE]
                  /\ params.mode = "Foreground" =>
                        after = [before EXCEPT !.fg_state.has_been_triggered = TRUE]
                  /\ params.mode = "NoTrigger" => after = before
                  /\ params.mode \in {"Background", "Foreground", "NoTrigger"} =>
                        after.triggers = animation_array[1].triggers
      ]_vars

\* C8 witness: a Background and a Foreground request have been made of the first animation
\* and nothing else has drawn from its generator: both flags are set, no trigger is live
C8_Witness ==
    /\ animation_array # <<>>
    /\ animation_array[1].bg_state.has_been_triggered
    /\ animation_array[1].fg_state.has_been_triggered
    /\ animation_array[1].random_number_generator = 2
    /\ animation_array[1].triggers = <<>>

\* C8 as claimed: a Background request changes nothing but the background's flag, a
\* Foreground request nothing but the foreground's flag, a NoTrigger request nothing.
C8_OnlyTheFlag ==
    [][\A params \in LCTriggerRequests, random \in RandomOffsets :
          LCTrigger(1, params, random) =>
              /\ params.mode = "Background" =>
                    animation_array'[1] =
                        [animation_array[1] EXCEPT !.bg_state.has_been_triggered = TRUE]
              /\ params.mode = "Foreground" =>
                    animation_array'[1] =
                        [animation_array[1] EXCEPT !.fg_state.has_been_triggered = TRUE]
              /\ params.mode = "NoTrigger" => animation_array'[1] = animation_array[1]
      ]_vars

-----------------------------------------------------------------------------
(* background.rs: Background and the background modes *)

\* Mode::get_updater: the updater function of a mode, named as in the source
get_updater(mode) ==
    CASE mode = "NoBackground" -> "no_background"
      [] mode = "Solid" -> "solid"
      [] mode = "SolidFade" -> "solid_fade"
      [] mode = "FillRainbow" -> "fill_rainbow"
      [] mode = "FillRainbowRotate" -> "fill_rainbow_rotate"

Background_new(init, rate) ==
    [offset |-> 0,
     frames |-> Progression_new(convert_ns_to_frames(init.duration_ns, rate)),
     has_been_triggered |-> FALSE,
     rainbow |-> StatefulRainbow_new(init.rainbow, init.is_rainbow_forward),
     direction |-> init.direction,
     subdivisions |-> init.subdivisions,
     updater |-> get_updater(init.mode)]

Background_reset_trigger(self) == [self EXCEPT !.has_been_triggered = FALSE]

Background_fill_solid(color, seg) == [i \in 1..Len(seg) |-> color]

\* impl MarchingRainbow, MarchingRainbowMut and SlowFadeRainbow for Background: each of
\* them hands out self.rainbow and self.frames
Background_rainbows(self) ==
    [fade_rainbow |-> self.rainbow, incremental_rainbow |-> self.rainbow,
     frames |-> self.frames]

\* advance_rainbow_color without the reset of the frame count
Background_advance_rainbow_color_keeps_frames(self) ==
    [self EXCEPT !.rainbow = rainbow_increment(@)]

\* MarchingRainbowMut::advance_rainbow_color on a Background
Background_advance_rainbow_color(self) ==
    LET advanced(g) == [self EXCEPT !.rainbow = g.incremental_rainbow, !.frames = g.frames]
    IN  advanced(advance_rainbow_color(Background_rainbows(self)))

\* SlowFadeRainbow::calculate_slow_fade_color on a Background.  The trait is given
\* read-only access to the rainbow and the frames (rainbow(&self), frames(&self)), as
\* FadeRainbow is, and its body is that of FadeRainbow::calculate_fade_color: it reads
\* the two and changes neither.
Background_calculate_slow_fade_color(self) == calculate_fade_color(Background_rainbows(self))

\* handle_solid_trigger without its test of the flag
handle_solid_trigger_every_update(self) ==
    Background_reset_trigger(Background_advance_rainbow_color(self))

\* Advances the rainbow which concurrently resets the frame count
handle_solid_trigger(self) ==
    IF self.has_been_triggered
    THEN Background_reset_trigger(Background_advance_rainbow_color(self))
    ELSE self

\* Sets the background to a random offset then resets the trigger
handle_rainbow_trigger(self, random) ==
    IF self.has_been_triggered
    THEN Background_reset_trigger([self EXCEPT !.offset = random])
    ELSE self

\* Background::fill_rainbow divides by the number of colours times the subdivisions and
\* by the distance between two colours: it panics when either is zero
Background_fill_rainbow_panics(self) ==
    LET total_num_rainbow_colors == Len(self.rainbow.backer.backer) * Max(1, self.subdivisions)
    IN  \/ total_num_rainbow_colors = 0
        \/ MAX_OFFSET \div total_num_rainbow_colors = 0

\* the colour Background::fill_rainbow gives the led at led_index of led_count leds
Background_fill_rainbow_color(self, start_offset, led_count, led_index) ==
    LET max_offset == MAX_OFFSET
        led_position == led_index * (max_offset \div led_count)
        rainbow_length == Len(self.rainbow.backer.backer)
        total_num_rainbow_colors == rainbow_length * Max(1, self.subdivisions)
        distance_between_colors == max_offset \div total_num_rainbow_colors
        shifted_position == (led_position + max_offset - start_offset) % max_offset
        rainbow_bucket == shifted_position \div distance_between_colors
        bucket_start == rainbow_bucket * distance_between_colors
        factor == shifted_position - bucket_start
        start_color == rainbow_index(self.rainbow.backer, rainbow_bucket % rainbow_length)
        end_color == rainbow_index(self.rainbow.backer, (rainbow_bucket + 1) % rainbow_length)
    IN  color_lerp(factor, 0, distance_between_colors, start_color, end_color)

\* Background::fill_rainbow: the rainbow is reset, then every led is given its colour
Background_fill_rainbow(self, start_offset, seg) ==
    [bg |-> [self EXCEPT !.rainbow = rainbow_reset(@)],
     segment |-> [i \in 1..Len(seg) |->
                     Background_fill_rainbow_color(self, start_offset, Len(seg), i - 1)]]

\* Sets all LEDs to off
no_background(self, seg) == [bg |-> self, segment |-> Background_fill_solid(C_OFF, seg)]

\* Sets all LEDs to the current rainbow color
solid(self, seg) ==
    LET filled(b) ==
            [bg |-> b,
             segment |-> Background_fill_solid(current_rainbow_color(Background_rainbows(b)),
                                               seg)]
    IN  filled(handle_solid_trigger(self))

\* every led is given calculate_slow_fade_color()
solid_fade(self, seg) ==
    LET faded(b) ==
            [bg |-> b,
             segment |-> [i \in 1..Len(seg) |-> Background_calculate_slow_fade_color(b)]]
    IN  faded(handle_solid_trigger(self))

\* Fills the rainbow based on whatever value the offset is currently set to
fill_rainbow(self, seg, random) ==
    LET filled(b) == Background_fill_rainbow(b, b.offset, seg)
    IN  filled(handle_rainbow_trigger(self, random))

\* the rainbow starts at the offset shifted by the current frame / total frames ratio
fill_rainbow_rotate(self, seg, random) ==
    LET filled(b) ==
            Background_fill_rainbow(b, shift_offset(b.offset, b.frames, b.direction), seg)
    IN  filled(handle_rainbow_trigger(self, random))

\* the call of the updater that Background::update makes
Background_run_updater(self, seg, random) ==
    CASE self.updater = "no_background" -> no_background(self, seg)
      [] self.updater = "solid" -> solid(self, seg)
      [] self.updater = "solid_fade" -> solid_fade(self, seg)
      [] self.updater = "fill_rainbow" -> fill_rainbow(self, seg, random)
      [] self.updater = "fill_rainbow_rotate" -> fill_rainbow_rotate(self, seg, random)

\* the updaters index the rainbow, and the rainbow fills divide: an empty rainbow panics
\* in every mode but NoBackground, more than MAX_OFFSET colours in the rainbow fills
Background_update_panics(self) ==
    \/ self.updater # "no_background" /\ Len(self.rainbow.backer.backer) = 0
    \/ self.updater \in {"fill_rainbow", "fill_rainbow_rotate"}
           /\ Background_fill_rainbow_panics(self)

\* Background::update: the updater, then self.frames.increment()
Background_update(self, seg, random) ==
    LET counted(u) == [bg |-> [u.bg EXCEPT !.frames = increment(@)], segment |-> u.segment]
    IN  counted(Background_run_updater(self, seg, random))
-----------------------------------------------------------------------------
(* One Background updated frame after frame, triggered in between *)

\* the components of the controller are not built
ControllerIdle ==
    /\ tc = <<>>
    /\ next_id = 0
    /\ animation_array = <<>>
    /\ office_strip = <<>>
    /\ timer_ch1 = <<>>
    /\ pins = <<>>
    /\ trace = <<>>

BgRainbows == {<<C_RED>>, <<C_RED, C_GREEN>>, <<C_RED, C_GREEN, C_BLUE>>}

BgDurations == (0..MaxDuration) \cup {10}

\* the parameters of the backgrounds explored: the solid modes with every rainbow,
\* rainbow direction and duration, the rainbow fills also with every direction and
\* number of subdivisions
BgParameters ==
    {[mode |-> m, rainbow |-> rb, direction |-> "Positive", is_rainbow_forward |-> fwd,
      duration_ns |-> ns_of_half_frames(2 * d), subdivisions |-> 1] :
        m \in {"NoBackground", "Solid", "SolidFade"}, rb \in BgRainbows, fwd \in BOOLEAN,
        d \in BgDurations}
    \cup
    {[mode |-> m, rainbow |-> rb, direction |-> dir, is_rainbow_forward |-> fwd,
      duration_ns |-> ns_of_half_frames(2 * d), subdivisions |-> sub] :
        m \in {"FillRainbow", "FillRainbowRotate"}, rb \in BgRainbows, fwd \in BOOLEAN,
        d \in 0..MaxDuration, dir \in {"Positive", "Negative", "Stopped"}, sub \in 0..2}

BGInit ==
    /\ \E init \in BgParameters, len \in 1..BgLeds :
          /\ background = Background_new(init, frame_rate)
          /\ segment = [i \in 1..len |-> C_WHITE]
    /\ bg_log = [updates |-> 0, requests |-> 0, served |-> 0, triggered |-> FALSE]
    /\ foreground = <<>>
    /\ fg_log = <<>>
    /\ overflow_checks = FALSE
    /\ panicked = FALSE
    /\ ControllerIdle
    /\ progression = <<>>
    /\ calls = <<>>
    /\ stateful_rainbow = <<>>
    /\ hc = <<>>
    /\ sender = <<>>
    /\ wave = <<>>

\* a trigger of the Background type: the flag of the Background is set
BGTrigger ==
    /\ ~panicked
    /\ bg_log.requests < MaxRequests
    /\ background' = [background EXCEPT !.has_been_triggered = TRUE]
    /\ bg_log' = [bg_log EXCEPT !.requests = @ + 1, !.triggered = TRUE]
    /\ UNCHANGED <<tc, segment, next_id, overflow_checks, panicked, lcVars, fgVars, pgVars, hwVars>>

\* background.update(segment) of one frame
BGUpdate(random) ==
    /\ ~panicked
    /\ bg_log.updates < MaxBgUpdates
    /\ IF Background_update_panics(background)
       THEN /\ panicked' = TRUE
            /\ UNCHANGED <<background, segment, bg_log>>
       ELSE /\ \E r \in {Background_update(background, segment, random)} :
                   /\ background' = r.bg
                   /\ segment' = r.segment
            /\ bg_log' = [bg_log EXCEPT !.updates = @ + 1, !.requests = 0,
                                        !.served = bg_log.requests]
            /\ UNCHANGED panicked
    /\ UNCHANGED <<tc, next_id, overflow_checks, lcVars, fgVars, pgVars, hwVars>>

BGNext ==
    \/ BGTrigger
    \/ \E random \in RandomOffsets : BGUpdate(random)

SpecBG == BGInit /\ [][BGNext]_vars
-----------------------------------------------------------------------------
(* Claims about the Background *)

\* the step is a Background::update call
IsBGUpdate == bg_log'.updates = bg_log.updates + 1

\* the palette cursor of the Background
Cursor(b) == b.rainbow.position.current

\* every led of the segment has the colour
AllLeds(seg, color) == \A i \in 1..Len(seg) : seg[i] = color

Interpolate(from, to, num, den) ==
    [r |-> from.r + TruncDiv(num * (to.r - from.r), den),
     g |-> from.g + TruncDiv(num * (to.g - from.g), den),
     b |-> from.b + TruncDiv(num * (to.b - from.b), den)]

\* C12: in SolidFade mode with a duration of D >= 2 frames and no trigger request, the
\* update of frame k paints every LED with the colour (k mod D) / D of the way from
\* palette[floor(k / D) mod N] to the next palette colour, and the palette index
\* advances by one exactly when the duration Progression wraps, once every D updates.
C12_FadeThroughPalette ==
    [][/\ background.updater = "solid_fade"
       /\ background.frames.total >= 2
       /\ ~bg_log.triggered
       /\ IsBGUpdate
       => LET D == background.frames.total
              N == Len(background.rainbow.backer.backer)
              k == bg_log.updates
              palette(i) == rainbow_index(background.rainbow.backer, i % N)
          IN  /\ AllLeds(segment', Interpolate(palette(k \div D), palette((k \div D) + 1),
                                               k % D, D))
              /\ Cursor(background') = ((k + 1) \div D) % N]_vars

C14_RotateAtFrameZero ==
    [][/\ background.updater = "fill_rainbow_rotate"
       /\ IsBGUpdate
       /\ get_current(background.frames) = 0
       /\ background'.offset = 0
       => segment' = fill_rainbow([background EXCEPT !.offset = 0,
                                                     !.has_been_triggered = FALSE],
                                  segment, 0).segment]_vars

\* a backwards rotating fill of three colours has just painted the frame at which its
\* three-frame duration wrapped: the two LEDs differ and show what FillRainbow paints
\* at offset 0
C14_Witness ==
    /\ background # <<>>
    /\ background.updater = "fill_rainbow_rotate"
    /\ background.direction = "Negative"
    /\ background.subdivisions = 1
    /\ Len(background.rainbow.backer.backer) = 3
    /\ background.frames.total = 3
    /\ background.frames.current = 1
    /\ background.offset = 0
    /\ bg_log.updates = 4
    /\ Len(segment) = 2
    /\ segment[1] # segment[2]
    /\ segment = fill_rainbow(background, segment, 0).segment
-----------------------------------------------------------------------------
(* leds.rs: ByteIter and BitIter, one next() call at a time *)

\* Option<T>
Some(v) == [some |-> TRUE, value |-> v]
None == [some |-> FALSE]

\* u8 & u8
RECURSIVE BitAnd(_, _)
BitAnd(a, b) ==
    IF a = 0 \/ b = 0 THEN 0 ELSE (a % 2) * (b % 2) + 2 * BitAnd(a \div 2, b \div 2)

\* IntoByteIter::into_bytes: the iterator before its first next()
ByteIter_new(colors, color_order) ==
    [source |-> colors, offsets |-> offsets(color_order), byte_buffer |-> <<0, 0, 0>>,
     index |-> 3]

\* ByteIter::next: the iterator after the call and the item returned
ByteIter_next(self) ==
    LET o == self.offsets
        loaded(color) ==
            [self EXCEPT !.source = Tail(@),
                         !.byte_buffer = [[[@ EXCEPT ![o[1] + 1] = color.r]
                                              EXCEPT ![o[2] + 1] = color.g]
                                              EXCEPT ![o[3] + 1] = color.b],
                         !.index = 0]
        yield(it) == [it |-> [it EXCEPT !.index = @ + 1],
                      item |-> Some(it.byte_buffer[it.index + 1])]
    IN  IF self.index > 2
        THEN IF self.source = <<>> THEN [it |-> self, item |-> None]
             ELSE yield(loaded(Head(self.source)))
        ELSE yield(self)

\* IntoBitIter::into_bits: the iterator before its first next()
BitIter_new(source) == [source |-> source, current_byte |-> 0, mask |-> 0]

\* a BitIter::next that starts every byte at its least significant bit
BitIter_next_lsb_first(self) ==
    LET yield(it) == [it |-> [it EXCEPT !.mask = (@ * 2) % 256],
                      item |-> Some(BitAnd(it.current_byte, it.mask) # 0)]
        refilled(b) ==
            IF b.item.some
            THEN yield([self EXCEPT !.source = b.it, !.current_byte = b.item.value,
                                    !.mask = 1])
            ELSE [it |-> [self EXCEPT !.source = b.it], item |-> None]
    IN  IF self.mask = 0 THEN refilled(ByteIter_next(self.source)) ELSE yield(self)

\* BitIter::next: the iterator after the call and the item returned
BitIter_next(self) ==
    LET yield(it) == [it |-> [it EXCEPT !.mask = @ \div 2],
                      item |-> Some(BitAnd(it.current_byte, it.mask) # 0)]
        refilled(b) ==
            IF b.item.some
            THEN yield([self EXCEPT !.source = b.it, !.current_byte = b.item.value,
                                    !.mask = 128])
            ELSE [it |-> [self EXCEPT !.source = b.it], item |-> None]
    IN  IF self.mask = 0 THEN refilled(ByteIter_next(self.source)) ELSE yield(self)

-----------------------------------------------------------------------------
(* hardware.rs: HardwareController *)

\* pin levels: TRUE is high
HardwareController_new(n_pins, level) ==
    [pins |-> [p \in 1..n_pins |-> level], timer |-> [match2 |-> FALSE, period |-> 0]]

set_low(self, pin) == [self EXCEPT !.pins[pin + 1] = FALSE]

set_high(self, pin) == [self EXCEPT !.pins[pin + 1] = TRUE]

\* a periodic_start that leaves a timer that is already counting as it is
periodic_start_once(self, time) ==
    IF self.timer.period > 0 THEN self
    ELSE [self EXCEPT !.timer = [match2 |-> FALSE, period |-> time]]

\* periodic_start: the timer counts periods of `time` nanoseconds from now on, its
\* match flag clear (PeriodicTimer_started)
periodic_start(self, time) ==
    [self EXCEPT !.timer = [match2 |-> PeriodicTimer_started.match2, period |-> time]]

\* periodic_wait loops until is_match2(): it returns only once the flag is set
periodic_wait_returns(self) == self.timer.match2

\* periodic_wait, when it returns: the flag is cleared
periodic_wait(self) == [self EXCEPT !.timer.match2 = FALSE]

\* a periodic_check_timeout that reports a match whether or not there was one
hc_periodic_check_timeout_never_blocks(self) ==
    [hc |-> [self EXCEPT !.timer.match2 = FALSE], result |-> "Ok"]

\* HardwareController's periodic_check_timeout, as send_bits calls it
hc_periodic_check_timeout(self) ==
    LET checked(c) == [hc |-> [self EXCEPT !.timer = c.timer], result |-> c.result]
    IN  checked(periodic_check_timeout(self.timer))
-----------------------------------------------------------------------------
(* leds.rs: send_all_sequential and send_bits, statement by statement *)

\* where the sender stands is named after the statement it executes next:
\*   strip      the head of the loop of send_all_sequential; for the next strip the
\*              bit iterator is built and send_bits starts the timer and sets the pin low
\*   delay      send_bits: the periodic_wait of the loop of delay periods
\*   first_bit  let mut next_bit = bit_iter.next()
\*   while      while let Some(bit) = next_bit { hc.set_high(pin_index) ...
\*   one_fetch, one_spin, one_wait, one_last      the arm of a true bit
\*   zero_wait, zero_fetch, zero_spin, zero_last  the arm of a false bit
\* `fetched` is history: the bits taken from the iterator for the strip being sent.
Sender_idle == [pc |-> "idle"]

\* the statements at which the sender waits for the timer to match: the periodic_wait
\* calls, and the loops `while hc.periodic_check_timeout().is_err() {}`
WaitingAt == {"delay", "one_wait", "one_last", "zero_wait", "zero_last"}
SpinningAt == {"one_spin", "zero_spin"}

\* the call of send_all_sequential: the loop starts with the first strip
send_all_sequential_call ==
    [pc |-> "strip", pin_index |-> 0, start_index |-> 0, loops |-> 0,
     bit_iter |-> BitIter_new(ByteIter_new(<<>>, "RGB")), next_bit |-> None, fetched |-> <<>>]

\* the bit iterator send_all_sequential hands to send_bits for the strip at pin_index
strip_bit_iter(logical_strip, pin_index, start_index) ==
    LET strip == logical_strip.strips[pin_index + 1]
        current_strip_colors ==
            SubSeq(logical_strip.color_buffer, start_index + 1, start_index + strip.led_count)
        colors == IF strip.reversed THEN rev(current_strip_colors) ELSE current_strip_colors
    IN  BitIter_new(ByteIter_new(colors, strip.color_order))

\* next_bit = bit_iter.next()
fetch(s) ==
    LET fetched(n) ==
            [s EXCEPT !.bit_iter = n.it, !.next_bit = n.item,
                      !.fetched = IF n.item.some THEN Append(@, n.item.value) ELSE @]
    IN  fetched(BitIter_next(s.bit_iter))

\* the next statement can be executed: a wait returns, and a spinning loop is left, only
\* once the timer has matched
send_step_enabled(s, h) ==
    /\ s.pc \notin {"idle", "done"}
    /\ s.pc \in WaitingAt => periodic_wait_returns(h)
    /\ s.pc \in SpinningAt => hc_periodic_check_timeout(h).result = "Ok"

\* one statement of the sender: the sender and the hardware controller after it
send_step(s, h, logical_strip) ==
    LET strips == logical_strip.strips
        pin == s.pin_index
        at(pc) == [s EXCEPT !.pc = pc]
    IN  CASE s.pc = "strip" ->
                 IF pin >= Len(strips) THEN [sender |-> at("done"), hc |-> h]
                 ELSE [sender |-> [s EXCEPT !.pc = "delay", !.loops = 0, !.fetched = <<>>,
                                            !.next_bit = None,
                                            !.bit_iter = strip_bit_iter(logical_strip, pin,
                                                                        s.start_index)],
                       hc |-> set_low(periodic_start(
                                  h, strips[pin + 1].strip_timings.full_cycle \div 3), pin)]
          [] s.pc = "delay" ->
                 [sender |-> [s EXCEPT !.loops = @ + 1,
                                       !.pc = IF s.loops + 1 < WS2811_DELAY_LOOPS_BEFORE_SEND
                                              THEN "delay" ELSE "first_bit"],
                  hc |-> periodic_wait(h)]
          [] s.pc = "first_bit" -> [sender |-> [fetch(s) EXCEPT !.pc = "while"], hc |-> h]
          [] s.pc = "while" ->
                 IF s.next_bit.some
                 THEN [sender |-> at(IF s.next_bit.value THEN "one_fetch" ELSE "zero_wait"),
                       hc |-> set_high(h, pin)]
                 ELSE [sender |-> [s EXCEPT !.pc = "strip", !.pin_index = @ + 1,
                                            !.start_index = @ + strips[pin + 1].led_count],
                       hc |-> h]
          [] s.pc = "one_fetch" -> [sender |-> [fetch(s) EXCEPT !.pc = "one_spin"], hc |-> h]
          [] s.pc = "one_spin" ->
                 [sender |-> at("one_wait"), hc |-> hc_periodic_check_timeout(h).hc]
          [] s.pc = "one_wait" ->
                 [sender |-> at("one_last"), hc |-> set_low(periodic_wait(h), pin)]
          [] s.pc = "one_last" -> [sender |-> at("while"), hc |-> periodic_wait(h)]
          [] s.pc = "zero_wait" ->
                 [sender |-> at("zero_fetch"), hc |-> set_low(periodic_wait(h), pin)]
          [] s.pc = "zero_fetch" -> [sender |-> [fetch(s) EXCEPT !.pc = "zero_spin"], hc |-> h]
          [] s.pc = "zero_spin" ->
                 [sender |-> at("zero_last"), hc |-> hc_periodic_check_timeout(h).hc]
          [] s.pc = "zero_last" -> [sender |-> at("while"), hc |-> periodic_wait(h)]
-----------------------------------------------------------------------------
(* One transmission of a logical strip of two physical strips *)

ColorOrders == {"RGB", "RBG", "GRB", "BRG", "GBR", "BGR"}

\* the colours of the LEDs sent; 176 is 0b10110000
SendColors == {Color(176, 1, 128), Color(15, 255, 0)}

\* set_color_at_index for the LEDs from index i on
RECURSIVE paint_from(_, _, _)
paint_from(logical_strip, colors, i) ==
    IF i >= Len(colors) THEN logical_strip
    ELSE paint_from(set_color_at_index(logical_strip, i, colors[i + 1]), colors, i + 1)

\* one period of the timer has passed with the pin at `level` while the strip at
\* pin_index was being sent: the last run of the wave grows or a new run starts
sample(w, pin_index, level, period) ==
    IF /\ w # <<>>
       /\ w[Len(w)].strip = pin_index
       /\ w[Len(w)].level = level
       /\ w[Len(w)].period = period
    THEN [w EXCEPT ![Len(w)].periods = @ + 1]
    ELSE Append(w, [strip |-> pin_index, level |-> level, period |-> period, periods |-> 1])

SendInit ==
    /\ \E n1 \in 0..SendLeds, n2 \in 0..SendLeds, order \in ColorOrders :
          \E colors \in [1..(n1 + n2) -> SendColors] :
              office_strip =
                  paint_from(LogicalStrip_new(
                                 <<PhysicalStrip(n1, FALSE, order, WS2811_ADAFRUIT),
                                   PhysicalStrip(n2, TRUE, "BRG", WS2812_ADAFRUIT)>>),
                             colors, 0)
    /\ hc = HardwareController_new(2, TRUE)
    /\ sender = Sender_idle
    /\ wave = <<<<>>, <<>>>>
    /\ overflow_checks = FALSE
    /\ panicked = FALSE
    /\ tc = <<>>
    /\ segment = <<>>
    /\ next_id = 0
    /\ animation_array = <<>>
    /\ timer_ch1 = <<>>
    /\ pins = <<>>
    /\ trace = <<>>
    /\ background = <<>>
    /\ bg_log = <<>>
    /\ foreground = <<>>
    /\ fg_log = <<>>
    /\ progression = <<>>
    /\ calls = <<>>
    /\ stateful_rainbow = <<>>

\* office_strip.send_all_sequential(&mut hc) is called
SendCall ==
    /\ sender.pc = "idle"
    /\ sender' = send_all_sequential_call
    /\ UNCHANGED <<hc, wave, tcVars, overflow_checks, panicked, lcVars, bgVars, fgVars, pgVars>>

\* the sender executes its next statement
SendStep ==
    /\ send_step_enabled(sender, hc)
    /\ \E r \in {send_step(sender, hc, office_strip)} :
           /\ sender' = r.sender
           /\ hc' = r.hc
    /\ UNCHANGED <<wave, tcVars, overflow_checks, panicked, lcVars, bgVars, fgVars, pgVars>>

\* the timer reaches its match point: a period ends.  The sender is waiting for it or
\* is still fetching the next bit; every other statement takes no time to speak of.
Tick ==
    /\ sender.pc \in WaitingAt \cup SpinningAt \cup {"one_fetch", "zero_fetch"}
    /\ ~hc.timer.match2
    /\ hc' = [hc EXCEPT !.timer.match2 = TRUE]
    /\ wave' = [p \in 1..Len(hc.pins) |->
                   sample(wave[p], sender.pin_index, hc.pins[p], hc.timer.period)]
    /\ UNCHANGED <<sender, tcVars, overflow_checks, panicked, lcVars, bgVars, fgVars, pgVars>>

SendNext ==
    \/ SendCall
    \/ SendStep
    \/ Tick

SpecSend == SendInit /\ [][SendNext]_vars
-----------------------------------------------------------------------------
(* Claims about the transmission *)

\* the runs of the wave of the pin of the strip being sent that passed during its
\* transmission
SentRuns == SelectSeq(wave[sender.pin_index + 1], LAMBDA r : r.strip = sender.pin_index)

\* the bits of the strip being sent whose three periods are over: those fetched, but
\* for the one fetched ahead
SentBits ==
    IF sender.next_bit.some THEN SubSeq(sender.fetched, 1, Len(sender.fetched) - 1)
    ELSE sender.fetched

\* a run of the wave of the strip being sent
Run(level, periods) ==
    [strip |-> sender.pin_index, level |-> level, periods |-> periods,
     period |-> office_strip.strips[sender.pin_index + 1].strip_timings.full_cycle \div 3]

\* C15: send_bits emits every bit as exactly three timer periods of one third of
\* full_cycle each: the pin goes high at the start of the bit, goes low after one
\* period for a 0 bit and after two periods for a 1 bit, and stays low for the rest of
\* the three.  The next bit is fetched inside the wait of two periods (with the pin
\* high for a 1 bit, low for a 0 bit, and at most one of the two periods over when
\* the fetch is done) and never adds a period.
C15_ThreePeriodsPerBit ==
    /\ sender.pc = "while" =>
          /\ Len(SentRuns) = 1 + 2 * Len(SentBits)
          /\ \A k \in 1..Len(SentBits) :
                /\ SentRuns[2 * k] = Run(TRUE, IF SentBits[k] THEN 2 ELSE 1)
                /\ SentRuns[2 * k + 1] = Run(FALSE, IF SentBits[k] THEN 1 ELSE 2)
    /\ sender.pc \in {"one_fetch", "one_spin"} =>
          /\ hc.pins[sender.pin_index + 1]
          /\ \/ ~SentRuns[Len(SentRuns)].level
             \/ SentRuns[Len(SentRuns)] = Run(TRUE, 1)
    /\ sender.pc \in {"zero_fetch", "zero_spin"} =>
          /\ ~hc.pins[sender.pin_index + 1]
          /\ \/ SentRuns[Len(SentRuns)] = Run(TRUE, 1)
             \/ /\ SentRuns[Len(SentRuns) - 1] = Run(TRUE, 1)
                /\ SentRuns[Len(SentRuns)] = Run(FALSE, 1)

\* the first strip, one LED of colour (176, 1, 128) in RGB order, has been sent: the
\* first byte 0b10110000 went out as high for 2, 1, 2, 2, 1, 1, 1, 1 periods of 833 ns,
\* each bit filled up to three periods by its low time
C15_Witness ==
    /\ sender.pc = "while"
    /\ sender.pin_index = 0
    /\ ~sender.next_bit.some
    /\ Len(sender.fetched) = 24
    /\ office_strip.strips[1].color_order = "RGB"
    /\ office_strip.color_buffer[1] = Color(176, 1, 128)
    /\ SubSeq(SentRuns, 2, 17) =
           <<Run(TRUE, 2), Run(FALSE, 1), Run(TRUE, 1), Run(FALSE, 2),
             Run(TRUE, 2), Run(FALSE, 1), Run(TRUE, 2), Run(FALSE, 1),
             Run(TRUE, 1), Run(FALSE, 2), Run(TRUE, 1), Run(FALSE, 2),
             Run(TRUE, 1), Run(FALSE, 2), Run(TRUE, 1), Run(FALSE, 2)>>
    /\ Run(TRUE, 1).period = 833

\* the strip being sent
SentStrip == office_strip.strips[sender.pin_index + 1]

\* C16: send_all_sequential transmits the strips one after another in list order, the
\* strip at position k driving only pin k.  For each strip the timer is restarted with
\* one third of the strip's bit cycle, the pin is held low for
\* WS2811_DELAY_LOOPS_BEFORE_SEND (900) periods before its first high pulse, exactly
\* 24 * led_count bits are sent, and the pin is low when the strip's transmission ends.
C16_OneStripAfterAnother ==
    /\ [](sender.pc \notin {"idle", "strip", "done"} =>
            /\ hc.timer.period = SentStrip.strip_timings.full_cycle \div 3
            /\ hc.pins[sender.pin_index + 1] =>
                  SentRuns[1] = Run(FALSE, WS2811_DELAY_LOOPS_BEFORE_SEND)
            /\ sender.pc \in {"delay", "first_bit"} =>
                  /\ ~hc.pins[sender.pin_index + 1]
                  /\ \A i \in 1..Len(SentRuns) : ~SentRuns[i].level
            /\ sender.pc = "first_bit" =>
                  SentRuns = <<Run(FALSE, WS2811_DELAY_LOOPS_BEFORE_SEND)>>
            /\ Len(sender.fetched) <= 24 * SentStrip.led_count
            /\ sender.pc = "while" /\ ~sender.next_bit.some =>
                  /\ Len(sender.fetched) = 24 * SentStrip.led_count
                  /\ Len(SentRuns) = 1 + 2 * 24 * SentStrip.led_count
                  /\ ~hc.pins[sender.pin_index + 1])
    /\ [](sender.pc = "done" =>
            /\ sender.pin_index = Len(office_strip.strips)
            /\ \A p \in 1..Len(hc.pins) : ~hc.pins[p])
    /\ [][/\ \A p \in 1..Len(hc.pins) :
                hc'.pins[p] # hc.pins[p] =>
                    sender.pc \notin {"idle", "done"} /\ sender.pin_index = p - 1
          /\ sender.pc \notin {"idle", "done"} /\ sender'.pin_index # sender.pin_index =>
                /\ sender'.pin_index = sender.pin_index + 1
                /\ sender.pc = "while"
                /\ ~sender.next_bit.some
                /\ sender'.pc = "strip"
          /\ sender.pc = "idle" /\ sender'.pc # "idle" => sender'.pin_index = 0]_vars

\* both strips, of one LED each, have been sent: each pin was low for 900 periods and
\* then carried 24 bits while its strip was sent, the first at 833 ns and the second at
\* 416 ns a period, and both pins are low
C16_Witness ==
    /\ sender.pc = "done"
    /\ office_strip.strips[1].led_count = 1
    /\ office_strip.strips[2].led_count = 1
    /\ ~hc.pins[1]
    /\ ~hc.pins[2]
    /\ LET first == SelectSeq(wave[1], LAMBDA r : r.strip = 0)
           second == SelectSeq(wave[2], LAMBDA r : r.strip = 1)
       IN  /\ Len(first) = 49
           /\ Len(second) = 49
           /\ first[1] = [strip |-> 0, level |-> FALSE, period |-> 833, periods |-> 900]
           /\ second[1] = [strip |-> 1, level |-> FALSE, period |-> 416, periods |-> 900]
           /\ first[2].level
           /\ second[2].level

\* ---------------------------------------------------------------------------
\* A LogicalStrip written led by led (leds.rs 101-153)
\* ---------------------------------------------------------------------------

\* leds per physical strip, spare entries of the colour buffer, calls per behaviour
SetLeds == 2
SpareLeds == 1
MaxSets == 2

\* LogicalStrip::new over the caller's buffers: the colour buffer may be longer than
\* the strips need (the byte buffer has three bytes for each of its entries)
LogicalStrip_new_over(strips, spare) ==
    [LogicalStrip_new(strips) EXCEPT
        !.color_buffer = [i \in 1..(total_led_count(strips) + spare) |-> C_OFF],
        !.byte_buffer = [i \in 1..(3 * (total_led_count(strips) + spare)) |-> 0]]

StripInit ==
    /\ \E n1 \in 1..SetLeds, n2 \in 1..SetLeds, r1 \in BOOLEAN, r2 \in BOOLEAN,
          o1 \in ColorOrders, spare \in 0..SpareLeds :
          office_strip =
              LogicalStrip_new_over(<<PhysicalStrip(n1, r1, o1, WS2811_ADAFRUIT),
                                      PhysicalStrip(n2, r2, "BRG", WS2812_ADAFRUIT)>>, spare)
    /\ trace = [index |-> 0, color |-> C_OFF, panic |-> "none"]
    /\ overflow_checks = FALSE
    /\ panicked = FALSE
    /\ tc = <<>>
    /\ segment = <<>>
    /\ next_id = 0
    /\ animation_array = <<>>
    /\ timer_ch1 = <<>>
    /\ pins = <<>>
    /\ UnitsIdle

\* office_strip.set_color_at_index(index, color); a panic halts the program
SetColor(index, color) ==
    /\ ~panicked
    /\ Len(office_strip.writes) < MaxSets
    /\ \E kind \in {set_color_at_index_panic(office_strip, index)} :
          /\ trace' = [index |-> index, color |-> color, panic |-> kind]
          /\ panicked' = (kind # "none")
          /\ office_strip' = IF kind = "none"
                             THEN set_color_at_index(office_strip, index, color)
                             ELSE set_color_at_index_halted(office_strip, index, color)
    /\ UNCHANGED <<tc, segment, next_id, overflow_checks, animation_array, timer_ch1, pins,
                   unitVars>>

SetIndices == 0..(2 * SetLeds + SpareLeds + 1)

StripNext == \E index \in SetIndices, color \in SendColors : SetColor(index, color)

SpecStrip == StripInit /\ [][StripNext]_vars

\* the strip that owns led i and the number of leds before it, read off the geometry
OwnerOf(strips, i) ==
    IF i < strips[1].led_count
    THEN [strip |-> strips[1], start |-> 0]
    ELSE [strip |-> strips[2], start |-> strips[1].led_count]

\* the three bytes of a colour in the order the ColorOrder names
InOrder(color_order, color) ==
    CASE color_order = "RGB" -> <<color.r, color.g, color.b>>
      [] color_order = "RBG" -> <<color.r, color.b, color.g>>
      [] color_order = "GRB" -> <<color.g, color.r, color.b>>
      [] color_order = "GBR" -> <<color.g, color.b, color.r>>
      [] color_order = "BRG" -> <<color.b, color.r, color.g>>
      [] color_order = "BGR" -> <<color.b, color.g, color.r>>

\* C17: set_color_at_index(i, c) with i inside the geometry stores c at color_buffer[i]
\* and writes the three channel bytes, each at the offset ColorOrder::offsets gives it,
\* at byte_buffer[3p .. 3p+2], where p = i in a strip that is not reversed and
\* p = start + (led_count - 1 - (i - start)) in a reversed one; no other entry of
\* either buffer changes, the geometry stays and the call returns.
C17_SetColorAtIndex ==
    [][\A i \in SetIndices, c \in SendColors :
          SetColor(i, c) /\ i < total_led_count(office_strip.strips) =>
              LET own == OwnerOf(office_strip.strips, i)
                  p == IF own.strip.reversed
                       THEN own.start + (own.strip.led_count - 1 - (i - own.start))
                       ELSE i
                  o == offsets(own.strip.color_order)
              IN  /\ ~panicked'
                  /\ office_strip'.strips = office_strip.strips
                  /\ office_strip'.color_buffer =
                         [office_strip.color_buffer EXCEPT ![i + 1] = c]
                  /\ office_strip'.byte_buffer =
                         [office_strip.byte_buffer EXCEPT ![3 * p + o[1] + 1] = c.r,
                                                          ![3 * p + o[2] + 1] = c.g,
                                                          ![3 * p + o[3] + 1] = c.b]]_vars

\* C17 witness: the first led of a reversed second strip of two leds with order BRG has
\* been set to (176, 1, 128); its bytes 128, 176, 1 stand in the strip's last pixel
C17_Witness ==
    /\ ~panicked
    /\ Len(office_strip.strips) = 2
    /\ office_strip.strips[2] = PhysicalStrip(2, TRUE, "BRG", WS2812_ADAFRUIT)
    /\ office_strip.strips[1].led_count = 1
    /\ trace = [index |-> 1, color |-> Color(176, 1, 128), panic |-> "none"]
    /\ office_strip.color_buffer[2] = Color(176, 1, 128)
    /\ SubSeq(office_strip.byte_buffer, 7, 9) = <<128, 176, 1>>
    /\ SubSeq(office_strip.byte_buffer, 1, 6) = <<0, 0, 0, 0, 0, 0>>

SendingAt == WaitingAt \cup SpinningAt \cup {"first_bit", "while", "one_fetch", "zero_fetch"}

\* the j-th bit (from 1) a strip owes the wire: pixel by pixel in the order sent, the
\* pixel's three bytes in the order its ColorOrder names, each byte from bit 7 to bit 0
WireBit(j) ==
    LET k == (j - 1) \div 24
        led == IF SentStrip.reversed THEN SentStrip.led_count - 1 - k ELSE k
        pixel == InOrder(SentStrip.color_order,
                         office_strip.color_buffer[sender.start_index + led + 1])
        byte == pixel[((j - 1) % 24) \div 8 + 1]
    IN  (byte \div (2 ^ (7 - ((j - 1) % 8)))) % 2 = 1

\* C19: the bit iterator turns every byte into exactly 8 bits, most significant bit
\* first (0b10110000 gives 1,0,1,1,0,0,0,0); the order of the bits does not depend on
\* the strip's ColorOrder, which only decides where the r, g and b bytes stand in the
\* three bytes of a pixel.
C19_MsbFirst ==
    sender.pc \in SendingAt =>
        /\ Len(sender.fetched) <= 24 * SentStrip.led_count
        /\ \A j \in 1..Len(sender.fetched) : sender.fetched[j] = WireBit(j)
        /\ (sender.pc \in SendingAt \ {"first_bit", "one_fetch", "zero_fetch"}
               /\ ~sender.next_bit.some /\ sender.loops = WS2811_DELAY_LOOPS_BEFORE_SEND)
           => Len(sender.fetched) = 24 * SentStrip.led_count

\* C19 witness: a strip with order GRB has handed out the 24 bits of (176, 1, 128):
\* 00000001 for g, 10110000 for r, 10000000 for b
C19_Witness ==
    /\ sender.pc = "while"
    /\ ~sender.next_bit.some
    /\ sender.pin_index = 0
    /\ SentStrip.color_order = "GRB"
    /\ SentStrip.led_count = 1
    /\ office_strip.color_buffer[1] = Color(176, 1, 128)
    /\ sender.fetched = <<FALSE, FALSE, FALSE, FALSE, FALSE, FALSE, FALSE, TRUE,
                          TRUE, FALSE, TRUE, TRUE, FALSE, FALSE, FALSE, FALSE,
                          TRUE, FALSE, FALSE, FALSE, FALSE, FALSE, FALSE, FALSE>>

\* ---------------------------------------------------------------------------
\* A Progression incremented call after call (utility.rs 232-329)
\* ---------------------------------------------------------------------------

\* a Progression as new() and set_current() and reverse_direction() can leave it
ProgressionInit ==
    /\ \E total \in 0..MaxTotal, value \in 0..MaxTotal, is_forward \in BOOLEAN :
          /\ value < total \/ value = 0
          /\ progression =
                 IF is_forward THEN set_current(Progression_new(total), value)
                 ELSE reverse_direction(set_current(Progression_new(total), value))
    /\ calls = [first |-> progression, log |-> <<>>]
    /\ stateful_rainbow = <<>>
    /\ overflow_checks = FALSE
    /\ panicked = FALSE
    /\ segment = <<>>
    /\ ControllerIdle
    /\ background = <<>>
    /\ bg_log = <<>>
    /\ foreground = <<>>
    /\ fg_log = <<>>
    /\ hc = <<>>
    /\ sender = <<>>
    /\ wave = <<>>

\* what one call did: the counter before and after it, the position read afterwards
Called(checked, did_roll, before, after) ==
    [checked |-> checked, did_roll |-> did_roll, from |-> before.current,
     to |-> after.current, position |-> get_current(after)]

\* progression.increment()
Increment ==
    /\ Len(calls.log) < MaxCalls
    /\ progression' = increment(progression)
    /\ calls' = [calls EXCEPT !.log = Append(@, Called(FALSE, FALSE, progression,
                                                        progression'))]
    /\ UNCHANGED <<tcVars, overflow_checks, panicked, lcVars, bgVars, fgVars, hwVars, stateful_rainbow>>

\* did_roll = progression.checked_increment()
CheckedIncrement ==
    /\ Len(calls.log) < MaxCalls
    /\ progression' = increment(progression)
    /\ calls' = [calls EXCEPT !.log = Append(@, Called(TRUE, checked_increment(progression),
                                                        progression, progression'))]
    /\ UNCHANGED <<tcVars, overflow_checks, panicked, lcVars, bgVars, fgVars, hwVars, stateful_rainbow>>

ProgressionNext ==
    \/ Increment
    \/ CheckedIncrement

SpecProgression == ProgressionInit /\ [][ProgressionNext]_vars

\* the position get_current() gave after n calls
PositionAfter(n) == IF n = 0 THEN get_current(calls.first) ELSE calls.log[n].position

\* C20: for a Progression with total T > 1, wherever it stands: T consecutive
\* increments bring get_current() back to where it was, and checked_increment()
\* returns true exactly on the call that moves the counter from T-1 to 0, which is
\* exactly one call of any T consecutive ones.
C20_CyclicProgression ==
    calls.first.total > 1 =>
        LET T == calls.first.total
            n == Len(calls.log)
            wraps(j) == calls.log[j].from = T - 1 /\ calls.log[j].to = 0
        IN  /\ progression.total = T
            /\ \A i \in 0..n : i + T <= n => PositionAfter(i + T) = PositionAfter(i)
            /\ \A i \in 0..n : \A d \in 1..(T - 1) :
                   i + d <= n => PositionAfter(i + d) # PositionAfter(i)
            /\ \A j \in 1..n : calls.log[j].checked => (calls.log[j].did_roll <=> wraps(j))
            /\ \A i \in 0..n : i + T <= n =>
                   Cardinality({j \in (i + 1)..(i + T) : wraps(j)}) = 1

\* C20 witness: a reversed Progression of total 3 standing at counter 1 has been
\* incremented six times with checked_increment; the second and the fifth call
\* returned true and the position is the one it started from
C20_Witness ==
    /\ calls.first = [current |-> 1, total |-> 3, is_forward |-> FALSE]
    /\ Len(calls.log) = 6
    /\ \A j \in 1..6 : calls.log[j].checked
    /\ [j \in 1..6 |-> calls.log[j].did_roll] = <<FALSE, TRUE, FALSE, FALSE, TRUE, FALSE>>
    /\ get_current(progression) = 1
    /\ progression.current = 1

\* ---------------------------------------------------------------------------
\* The operations of a Progression in any order (utility.rs 239-329), and those of
\* the Progression private to animations.rs (861-877)
\* ---------------------------------------------------------------------------

\* the Progression is the one of utility.rs (the one of animations.rs has no direction)
IsUtility(p) == "is_forward" \in DOMAIN p

\* Progression::new(total), or a Progression { current: 0, total } of animations.rs
OpsInit ==
    /\ \E total \in 0..MaxTotal :
          progression \in {Progression_new(total), Animation_Progression(total)}
    /\ calls = [op |-> "new", value |-> 0, returned |-> FALSE, before |-> progression]
    /\ stateful_rainbow = <<>>
    /\ overflow_checks = FALSE
    /\ panicked = FALSE
    /\ segment = <<>>
    /\ ControllerIdle
    /\ background = <<>>
    /\ bg_log = <<>>
    /\ foreground = <<>>
    /\ fg_log = <<>>
    /\ hc = <<>>
    /\ sender = <<>>
    /\ wave = <<>>

\* one call on the Progression: what it leaves and what it returns
Op(name, value, after, returned) ==
    /\ progression' = after
    /\ calls' = [op |-> name, value |-> value, returned |-> returned, before |-> progression]
    /\ UNCHANGED <<tcVars, overflow_checks, panicked, lcVars, bgVars, fgVars, hwVars, stateful_rainbow>>

OpIncrement ==
    /\ IsUtility(progression)
    /\ Op("increment", 0, increment(progression), FALSE)

OpDecrement ==
    /\ IsUtility(progression)
    /\ Op("decrement", 0, decrement(progression), FALSE)

OpCheckedIncrement ==
    /\ IsUtility(progression)
    /\ Op("checked_increment", 0, increment(progression), checked_increment(progression))

OpCheckedDecrement ==
    /\ IsUtility(progression)
    /\ Op("checked_decrement", 0, decrement(progression), checked_decrement(progression))

OpSetCurrent(value) ==
    /\ IsUtility(progression)
    /\ Op("set_current", value, set_current(progression, value), FALSE)

OpReverseDirection ==
    /\ IsUtility(progression)
    /\ Op("reverse_direction", 0, reverse_direction(progression), FALSE)

OpReset ==
    /\ IsUtility(progression)
    /\ Op("reset", 0, reset(progression), FALSE)

\* the two operations of the Progression of animations.rs
OpAnimationIncrement ==
    /\ ~IsUtility(progression)
    /\ Op("increment", 0, Animation_increment(progression), FALSE)

OpAnimationCheckedIncrement ==
    /\ ~IsUtility(progression)
    /\ Op("checked_increment", 0, Animation_increment(progression),
          Animation_checked_increment(progression))

OpsNext ==
    \/ OpIncrement
    \/ OpDecrement
    \/ OpCheckedIncrement
    \/ OpCheckedDecrement
    \/ \E value \in 0..MaxValue : OpSetCurrent(value)
    \/ OpReverseDirection
    \/ OpReset
    \/ OpAnimationIncrement
    \/ OpAnimationCheckedIncrement

SpecOps == OpsInit /\ [][OpsNext]_vars

\* the mono invariant as far as it speaks of a Progression of utility.rs
MonoUtility ==
    (IsUtility(progression) /\ progression.total <= 1) =>
        /\ get_current(progression) = 0
        /\ peek_next(progression) = 0
        /\ peek_prev(progression) = 0
        /\ increment(progression) = progression
        /\ decrement(progression) = progression
        /\ ~checked_increment(progression)
        /\ ~checked_decrement(progression)
        /\ ~calls.returned

\* the mono invariant as far as it speaks of the Progression of animations.rs, which
\* has the counter itself for its position and the two incrementing calls
MonoAnimation ==
    (~IsUtility(progression) /\ progression.total <= 1) =>
        /\ progression.current = 0
        /\ Animation_increment(progression) = progression
        /\ ~calls.returned

\* C21: a Progression with total <= 1 is mono: after any sequence of increment,
\* decrement, checked_increment, checked_decrement, set_current, reverse_direction and
\* reset calls get_current() is 0, peek_next() and peek_prev() are 0, increment and
\* decrement change nothing, and checked_increment() and checked_decrement() return
\* false.
C21_MonoInvariant == MonoUtility /\ MonoAnimation

\* C22: for a Progression with total > 1, get_current() is current when the Progression
\* is forward and total-1-current when it is reversed; set_current(v) stores v mod total
\* for every v, so that after any sequence of operations get_current() lies in
\* 0 .. total-1; new(total) starts at position 0, forward.
C22_PositionInRange ==
    (IsUtility(progression) /\ progression.total > 1) =>
        LET T == progression.total
        IN  /\ progression.is_forward => get_current(progression) = progression.current
            /\ ~progression.is_forward =>
                   get_current(progression) = T - 1 - progression.current
            /\ calls.op = "set_current" =>
                   /\ progression.current = calls.value - T * (calls.value \div T)
                   /\ progression.is_forward = calls.before.is_forward
            /\ get_current(progression) \in 0..(T - 1)
            /\ progression.current \in 0..(T - 1)
            /\ calls.op = "new" =>
                   /\ get_current(progression) = 0
                   /\ progression.is_forward
            /\ calls.before.total = T

\* C22 witness: set_current(9) on a reversed Progression of total 4 has left the counter
\* at 1, which get_current() reads as position 2
C22_Witness ==
    /\ IsUtility(progression)
    /\ progression.total = 4
    /\ ~progression.is_forward
    /\ calls.op = "set_current"
    /\ calls.value = 9
    /\ progression.current = 1
    /\ get_current(progression) = 2

\* ---------------------------------------------------------------------------
\* Color::color_lerp and Color::lerp_with called on their own (colors.rs 25-43,
\* utility.rs 331-335)
\* ---------------------------------------------------------------------------

ChannelValues == {0, 127, 255}

\* colours with every pair of channel values among their channels
LerpColors ==
    {Color(v, w, v) : v \in ChannelValues, w \in ChannelValues}
        \cup {Color(v, v, w) : v \in ChannelValues, w \in ChannelValues}

LerpInit ==
    /\ calls = [op |-> "none"]
    /\ stateful_rainbow = <<>>
    /\ progression = <<>>
    /\ overflow_checks = FALSE
    /\ panicked = FALSE
    /\ segment = <<>>
    /\ ControllerIdle
    /\ background = <<>>
    /\ bg_log = <<>>
    /\ foreground = <<>>
    /\ fg_log = <<>>
    /\ hc = <<>>
    /\ sender = <<>>
    /\ wave = <<>>

\* the record of the one interpolation of a behaviour
Lerped(op, factor, in_min, in_max, start_color, end_color) ==
    [op |-> op, factor |-> factor, in_min |-> in_min, in_max |-> in_max,
     start_color |-> start_color, end_color |-> end_color,
     result |-> IF color_lerp_panics(in_min, in_max) THEN C_OFF
                ELSE color_lerp(factor, in_min, in_max, start_color, end_color)]

\* Color::color_lerp(factor, in_min, in_max, start_color, end_color)
ColorLerp(factor, in_min, in_max, start_color, end_color) ==
    /\ ~panicked
    /\ calls.op = "none"
    /\ calls' = Lerped("color_lerp", factor, in_min, in_max, start_color, end_color)
    /\ panicked' = color_lerp_panics(in_min, in_max)
    /\ UNCHANGED <<progression, stateful_rainbow, tcVars, overflow_checks, lcVars, bgVars, fgVars,
                   hwVars>>

\* start_color.lerp_with(end_color, factor) with a Progression for its factor
LerpWith(start_color, end_color, factor) ==
    /\ ~panicked
    /\ calls.op = "none"
    /\ calls' = Lerped("lerp_with", get_current(factor), 0, factor.total,
                       start_color, end_color)
    /\ panicked' = lerp_with_panics(factor)
    /\ UNCHANGED <<progression, stateful_rainbow, tcVars, overflow_checks, lcVars, bgVars, fgVars,
                   hwVars>>

LerpNext ==
    \/ \E in_min \in 0..1, in_max \in 0..(MaxDuration + 1), start_color \in LerpColors,
          end_color \in LerpColors :
          \E factor \in in_min..Max(in_min, in_max) :
              ColorLerp(factor, in_min, in_max, start_color, end_color)
    \/ \E total \in 0..MaxDuration, value \in 0..MaxDuration, is_forward \in BOOLEAN,
          start_color \in LerpColors, end_color \in LerpColors :
          LerpWith(start_color, end_color,
                   [set_current(Progression_new(total), value)
                       EXCEPT !.is_forward = is_forward])

SpecLerp == LerpInit /\ [][LerpNext]_vars

\* a channel interpolated from its own start and end values
OwnChannel(start, end) ==
    AsU8(start + TruncDiv((calls.factor - calls.in_min) * (end - start),
                          calls.in_max - calls.in_min))

\* C23: color_lerp (and lerp_with, which calls it with in_min = 0 and in_max = total)
\* computes each of r, g and b as start.c + (factor - in_min) * (end.c - start.c) /
\* (in_max - in_min) from that channel's own start and end values; in particular it
\* returns the start colour at factor 0 and the end colour at factor = total.
C23_PerChannelLerp ==
    (calls.op \in {"color_lerp", "lerp_with"} /\ ~panicked) =>
        /\ calls.result.r = OwnChannel(calls.start_color.r, calls.end_color.r)
        /\ calls.result.g = OwnChannel(calls.start_color.g, calls.end_color.g)
        /\ calls.result.b = OwnChannel(calls.start_color.b, calls.end_color.b)
        /\ calls.factor = calls.in_min => calls.result = calls.start_color
        /\ calls.factor = calls.in_max => calls.result = calls.end_color

-----------------------------------------------------------------------------
(* foreground.rs: the Foreground layer on its own.  Its Progression is imported  *)
(* from animations.rs but used with new, reverse_direction, decrement, peek_next, *)
(* peek_prev and reset: the Progression of utility.rs is the one in src/ that has *)
(* them, and is the one modelled here.                                            *)

\* a pixel group size of 0 sent through `% (px_per_pip * 2)` as it stands
Foreground_fill_marquee_panics(self, seg) ==
    Len(seg) > 0 /\ self.pixels_per_pixel_group = 0

\* fill_marquee that switches off the leds it does not light
Foreground_fill_marquee_opaque(self, color, seg) ==
    [i \in 1..Len(seg) |->
        IF (((i - 1) % (self.pixels_per_pixel_group * 2)) < self.pixels_per_pixel_group)
               = self.marquee_position_toggle
        THEN color ELSE C_OFF]

\* Foreground::fill_marquee: the leds of the lit half of every double group get the colour
Foreground_fill_marquee(self, color, seg) ==
    [i \in 1..Len(seg) |->
        LET px_per_pip == self.pixels_per_pixel_group
            toggle == self.marquee_position_toggle
            subpip_number == (i - 1) % (px_per_pip * 2)
        IN  IF \/ subpip_number < px_per_pip /\ toggle
               \/ subpip_number >= px_per_pip /\ ~toggle
            THEN color ELSE seg[i]]

\* StatefulRainbow::new of foreground.rs: a reversed rainbow starts at its last colour
Foreground_StatefulRainbow_new(rainbow, is_forward) ==
    LET position == Progression_new(Len(rainbow))
    IN  [backer |-> rainbow,
         position |-> IF is_forward THEN position
                      ELSE reverse_direction([position EXCEPT !.current = position.total - 1])]

\* StatefulRainbow::current_color and peek_next_color of foreground.rs
Foreground_current_color(rainbow) == rainbow.backer[rainbow.position.current + 1]

Foreground_peek_next_color(rainbow) == rainbow.backer[peek_next(rainbow.position) + 1]

AnimationState_new(rainbow, is_forward, frame_count) ==
    [offset |-> 0,
     frames |-> Progression_new(frame_count),
     rainbow |-> Foreground_StatefulRainbow_new(rainbow, is_forward),
     has_been_triggered |-> FALSE]

\* AnimationState::calculate_slow_fade_color: the state it leaves and the colour
AnimationState_calculate_slow_fade_color(self) ==
    IF self.frames.total = 0
    THEN [self |-> self, color |-> Foreground_current_color(self.rainbow)]
    ELSE LET faded(s) ==
                 [self |-> s,
                  color |-> lerp_with(Foreground_current_color(s.rainbow),
                                      Foreground_peek_next_color(s.rainbow), s.frames)]
         IN  faded([self EXCEPT
                       !.frames = increment(@),
                       !.rainbow.position =
                           IF checked_increment(self.frames) THEN increment(@) ELSE @])

Foreground_get_updater(mode) == IF mode = "NoForeground" THEN None ELSE Some(mode)

Foreground_new(init, rate) ==
    [base_state |-> AnimationState_new(init.rainbow, init.is_rainbow_forward,
                                       convert_ns_to_frames(init.duration_ns, rate)),
     step_frames |-> Progression_new(convert_ns_to_frames(init.step_time_ns, rate)),
     marquee_position_toggle |-> FALSE,
     direction |-> init.direction,
     subdivisions |-> init.subdivisions,
     pixels_per_pixel_group |-> init.pixels_per_pixel_group,
     updater |-> Foreground_get_updater(init.mode)]

Foreground_current_rainbow_color(self) == Foreground_current_color(self.base_state.rainbow)

Foreground_advance_rainbow_index(self) ==
    [self EXCEPT !.base_state.rainbow.position = increment(@)]

\* increment_marquee_step that flips the parity on every call
Foreground_increment_marquee_step_always(self) ==
    [self EXCEPT !.step_frames = increment(@),
                 !.marquee_position_toggle = ~@]

Foreground_increment_marquee_step(self) ==
    [self EXCEPT !.step_frames = increment(@),
                 !.marquee_position_toggle =
                     IF checked_increment(self.step_frames) THEN ~@ ELSE @]

\* set_marquee_toggle divides MAX_OFFSET by the length of the segment
set_marquee_toggle_panics(led_count) == led_count = 0

set_marquee_toggle(fg, led_count) ==
    LET pip_distance == (MAX_OFFSET \div led_count) * Max(fg.pixels_per_pixel_group, 1)
        led_bucket == fg.base_state.offset \div Max(pip_distance, 1)
    IN  [fg EXCEPT !.marquee_position_toggle = (led_bucket % 2 = 0)]

Foreground_handle_marquee_trigger(fg) ==
    IF fg.base_state.has_been_triggered
    THEN [Foreground_advance_rainbow_index(fg) EXCEPT
             !.base_state.frames = reset(@),
             !.base_state.has_been_triggered = FALSE]
    ELSE fg

\* the updaters hand back the Foreground and the segment they leave, or panic
Updated(fg, seg) == [fg |-> fg, segment |-> seg, panic |-> FALSE]

FgPanic(fg, seg) == [fg |-> fg, segment |-> seg, panic |-> TRUE]

\* the last statement of the four marquee updaters
Foreground_filled(fg, color, seg) ==
    IF Foreground_fill_marquee_panics(fg, seg) THEN FgPanic(fg, seg)
    ELSE Updated(fg, Foreground_fill_marquee(fg, color, seg))

marquee_solid(fg, seg) ==
    LET fill(f) == Foreground_filled(f, Foreground_current_rainbow_color(f), seg)
    IN  fill(Foreground_increment_marquee_step(Foreground_handle_marquee_trigger(fg)))

marquee_solid_fixed(fg, seg) ==
    LET fill(f) == Foreground_filled(f, Foreground_current_rainbow_color(f), seg)
    IN  IF set_marquee_toggle_panics(Len(seg)) THEN FgPanic(fg, seg)
        ELSE fill(set_marquee_toggle(Foreground_handle_marquee_trigger(fg), Len(seg)))

marquee_fade(fg, seg) ==
    LET fill(f, c) == Foreground_filled([f EXCEPT !.base_state = c.self], c.color, seg)
        fade(f) == fill(f, AnimationState_calculate_slow_fade_color(f.base_state))
    IN  fade(Foreground_increment_marquee_step(
                 Foreground_handle_marquee_trigger(
                     [fg EXCEPT !.base_state.frames = increment(@)])))

marquee_fade_fixed(fg, seg) ==
    LET fill(f, c) == Foreground_filled([f EXCEPT !.base_state = c.self], c.color, seg)
        fade(f) == fill(f, AnimationState_calculate_slow_fade_color(f.base_state))
    IN  IF set_marquee_toggle_panics(Len(seg)) THEN FgPanic(fg, seg)
        ELSE fade(set_marquee_toggle(
                      Foreground_handle_marquee_trigger(
                          [fg EXCEPT !.base_state.frames = increment(@)]), Len(seg)))

\* vu_meter: the leds from offset / led_count on are switched off; the slice panics
\* when that index lies behind the segment
vu_meter(fg, seg) ==
    IF Len(seg) = 0 \/ fg.base_state.offset \div Max(Len(seg), 1) > Len(seg)
    THEN FgPanic(fg, seg)
    ELSE Updated(fg, [i \in 1..Len(seg) |->
                         IF i - 1 >= fg.base_state.offset \div Len(seg) THEN C_OFF
                         ELSE seg[i]])

\* Foreground::update
Foreground_update(self, seg) ==
    IF ~self.updater.some THEN Updated(self, seg)
    ELSE CASE self.updater.value = "MarqueeSolid" -> marquee_solid(self, seg)
           [] self.updater.value = "MarqueeSolidFixed" -> marquee_solid_fixed(self, seg)
           [] self.updater.value = "MarqueeFade" -> marquee_fade(self, seg)
           [] self.updater.value = "MarqueeFadeFixed" -> marquee_fade_fixed(self, seg)
           [] self.updater.value = "VUMeter" -> vu_meter(self, seg)

-----------------------------------------------------------------------------
(* One Foreground driven by update calls, offsets and trigger requests *)

FgModes == {"NoForeground", "MarqueeSolid", "MarqueeSolidFixed", "MarqueeFade",
            "MarqueeFadeFixed", "VUMeter"}

MovingModes == {"MarqueeSolid", "MarqueeFade"}
FixedModes == {"MarqueeSolidFixed", "MarqueeFadeFixed"}

\* offsets handed to set_offset: the start, the second group of a segment of four
\* leds, and the largest offset
FgOffsets == {0, 16383, 65535}

FgParameters ==
    {[mode |-> m, rainbow |-> <<C_RED, C_GREEN, C_BLUE>>, direction |-> "Positive",
      is_rainbow_forward |-> fwd, duration_ns |-> ns_of_half_frames(2 * d),
      step_time_ns |-> ns_of_half_frames(2 * s), subdivisions |-> 1,
      pixels_per_pixel_group |-> g] :
        m \in FgModes, fwd \in BOOLEAN, d \in {0, 2}, s \in 0..MaxDuration, g \in 0..2}

\* the segment as a NoBackground layer leaves it before the foreground is rendered
Blank(len) == [i \in 1..len |-> C_OFF]

\* the leds of the segment that show the marquee colour
Lit(seg) == {i \in 1..Len(seg) : seg[i] # C_OFF}

FGInit ==
    /\ \E init \in FgParameters, len \in 1..FgLeds :
          /\ init.is_rainbow_forward \/ init.duration_ns # 0
          /\ foreground = Foreground_new(init, frame_rate)
          /\ segment = Blank(len)
    /\ fg_log = [updates |-> 0, last |-> "new", since_flip |-> 0, offset |-> 0, lit |-> {}]
    /\ overflow_checks = FALSE
    /\ panicked = FALSE
    /\ ControllerIdle
    /\ background = <<>>
    /\ bg_log = <<>>
    /\ progression = <<>>
    /\ calls = <<>>
    /\ stateful_rainbow = <<>>
    /\ hc = <<>>
    /\ sender = <<>>
    /\ wave = <<>>

\* set_offset(Foreground, offset): the offset of the foreground state is stored
FGSetOffset(offset) ==
    /\ ~panicked
    /\ fg_log.last # "set_offset"
    /\ foreground' = [foreground EXCEPT !.base_state.offset = offset]
    /\ fg_log' = [fg_log EXCEPT !.last = "set_offset"]
    /\ UNCHANGED <<tc, segment, next_id, overflow_checks, panicked, lcVars, bgVars, pgVars,
                   hwVars>>

\* a trigger of the Foreground type: AnimationState::trigger
FGTrigger ==
    /\ ~panicked
    /\ ~foreground.base_state.has_been_triggered
    /\ foreground' = [foreground EXCEPT !.base_state.has_been_triggered = TRUE]
    /\ fg_log' = [fg_log EXCEPT !.last = "trigger"]
    /\ UNCHANGED <<tc, segment, next_id, overflow_checks, panicked, lcVars, bgVars, pgVars,
                   hwVars>>

\* foreground.update(segment) of one frame, over the blank background
FGUpdate ==
    /\ ~panicked
    /\ fg_log.updates < MaxFgUpdates
    /\ \E r \in {Foreground_update(foreground, Blank(Len(segment)))} :
          /\ foreground' = r.fg
          /\ segment' = r.segment
          /\ panicked' = r.panic
          /\ fg_log' = [updates |-> fg_log.updates + 1,
                        last |-> "update",
                        since_flip |->
                            IF r.fg.marquee_position_toggle # foreground.marquee_position_toggle
                            THEN 0 ELSE fg_log.since_flip + 1,
                        offset |-> foreground.base_state.offset,
                        lit |-> Lit(r.segment)]
    /\ UNCHANGED <<tc, next_id, overflow_checks, lcVars, bgVars, pgVars, hwVars>>

FGNext ==
    \/ \E offset \in FgOffsets : FGSetOffset(offset)
    \/ FGTrigger
    \/ FGUpdate

SpecFG == FGInit /\ [][FGNext]_vars

IsFGUpdate == fg_log'.updates = fg_log.updates + 1 /\ ~panicked'

InMode(modes) == foreground.updater.some /\ foreground.updater.value \in modes

\* the step Progression wraps in this step: its counter goes from total-1 to 0
StepWraps ==
    /\ foreground.step_frames.total > 1
    /\ foreground.step_frames.current = foreground.step_frames.total - 1
    /\ foreground'.step_frames.current = 0

\* the parity the offset alone gives: groups of pixels_per_pixel_group leds, each led
\* MAX_OFFSET / led_count wide, the even groups lit
OffsetParity ==
    LET group == (65535 \div Len(segment)) * Max(foreground.pixels_per_pixel_group, 1)
    IN  (foreground.base_state.offset \div Max(group, 1)) % 2 = 0

\* C24: in the moving marquee modes (MarqueeSolid, MarqueeFade) the lit parity flips
\* exactly on the updates where the step Progression wraps, which is once every
\* step_frames updates (a step Progression of 0 or 1 frames is mono: it never wraps
\* and the parity never flips); in the fixed modes (MarqueeSolidFixed,
\* MarqueeFadeFixed) the parity is a function of the externally set offset alone, the
\* step Progression is never advanced, and the pattern changes only when the offset
\* has been changed.
C24_MarqueeParity ==
    /\ [](InMode(MovingModes) /\ foreground.step_frames.total > 1
             => fg_log.since_flip < foreground.step_frames.total)
    /\ [][/\ (IsFGUpdate /\ InMode(MovingModes)) =>
                 /\ (foreground'.marquee_position_toggle # foreground.marquee_position_toggle)
                        <=> StepWraps
                 /\ StepWraps =>
                        fg_log.since_flip = foreground.step_frames.total - 1
                 /\ foreground.step_frames.total > 1 =>
                        foreground'.step_frames.current =
                            (foreground.step_frames.current + 1) % foreground.step_frames.total
          /\ (InMode(MovingModes) /\ fg_log'.updates = fg_log.updates) =>
                 /\ foreground'.marquee_position_toggle = foreground.marquee_position_toggle
                 /\ foreground'.step_frames = foreground.step_frames
          /\ InMode(FixedModes) => foreground'.step_frames = foreground.step_frames
          /\ (IsFGUpdate /\ InMode(FixedModes)) =>
                 /\ foreground'.marquee_position_toggle = OffsetParity
                 /\ (fg_log.last = "update"
                        \/ (fg_log.updates > 0 /\ foreground.base_state.offset = fg_log.offset))
                    => Lit(segment') = fg_log.lit
         ]_vars

\* C24 witness: a MarqueeFade of step 3 over four leds in groups of one has been
\* updated six times: the parity flipped at the third and at the sixth update and the
\* second and fourth led are lit
C24_Witness ==
    /\ InMode({"MarqueeFade"})
    /\ foreground.step_frames.total = 3
    /\ foreground.pixels_per_pixel_group = 1
    /\ Len(segment) = 4
    /\ fg_log.updates = 6
    /\ fg_log.since_flip = 0
    /\ ~foreground.marquee_position_toggle
    /\ Lit(segment) = {2, 4}

-----------------------------------------------------------------------------
(* A Background over a palette without colours *)

EmptyPaletteParameters ==
    {[mode |-> m, rainbow |-> <<>>, direction |-> dir, is_rainbow_forward |-> fwd,
      duration_ns |-> ns_of_half_frames(2 * d), subdivisions |-> sub] :
        m \in {"NoBackground", "Solid", "SolidFade", "FillRainbow", "FillRainbowRotate"},
        fwd \in BOOLEAN, d \in 0..MaxDuration, dir \in {"Positive", "Negative", "Stopped"},
        sub \in 0..2}

EmptyPaletteInit ==
    /\ \E init \in EmptyPaletteParameters, len \in 1..BgLeds :
          /\ background = Background_new(init, frame_rate)
          /\ segment = [i \in 1..len |-> C_WHITE]
    /\ bg_log = [updates |-> 0, requests |-> 0, served |-> 0, triggered |-> FALSE]
    /\ foreground = <<>>
    /\ fg_log = <<>>
    /\ overflow_checks = FALSE
    /\ panicked = FALSE
    /\ ControllerIdle
    /\ progression = <<>>
    /\ calls = <<>>
    /\ stateful_rainbow = <<>>
    /\ hc = <<>>
    /\ sender = <<>>
    /\ wave = <<>>

SpecEmptyPalette == EmptyPaletteInit /\ [][BGNext]_vars

\* C25: a palette of length 0 never causes a division or remainder by zero or a palette
\* lookup out of range: every computation that divides by the palette length or takes
\* a remainder by it (the colour distance and bucket index of fill_rainbow, the advance
\* of the palette cursor, the lookups of its colours) treats length 0 as 1, so no
\* update of a Background over an empty palette panics.
C25_EmptyPaletteGuarded ==
    Len(background.rainbow.backer.backer) = 0 => ~panicked

\* the leds a marquee of group size 1 lights: every second one, from the first or
\* from the second according to the parity
GroupsOfOne(len, toggle) == {i \in 1..len : ((i - 1) % 2 = 0) = toggle}

\* C26: a pixel group size of 0 is treated as 1 by the marquee foreground modes:
\* fill_marquee and the parity computation of the fixed marquees complete without a
\* division or remainder by zero, and the update renders the pattern of group size 1.
C26_ZeroGroupSize ==
    [][(/\ fg_log'.updates = fg_log.updates + 1
        /\ InMode(MovingModes \cup FixedModes)
        /\ foreground.pixels_per_pixel_group = 0) =>
           /\ ~panicked'
           /\ Lit(segment') = GroupsOfOne(Len(segment), foreground'.marquee_position_toggle)]_vars

-----------------------------------------------------------------------------
(* Animatable::set_offset between the frames of the lighting controller *)

\* set_offset stores the offset in both layer states
Animation_set_offset_both(self, a_type, offset) ==
    [self EXCEPT !.bg_state.offset = offset, !.fg_state.offset = offset]

\* Animatable::set_offset: the Trigger arm of the match is empty
Animation_set_offset(self, a_type, offset) ==
    CASE a_type = "Background" -> [self EXCEPT !.bg_state.offset = offset]
      [] a_type = "Foreground" -> [self EXCEPT !.fg_state.offset = offset]
      [] a_type = "Trigger" -> self

\* set_offset calls explored in one behaviour, and the offsets they pass
MaxOffsetCalls == 2
LCOffsets == {16383}

AnimationTypes == {"Background", "Foreground", "Trigger"}

\* the controller of LCInit with the layers that read their offsets
OffsetInit ==
    /\ LET lc == LightingController_new(
                     LogicalStrip_new(LC_STRIPS),
                     <<Animation_new(AnimationParameters("FillRainbowRotate", "MarqueeFadeFixed"),
                                     default_translation_array(0, 2 * StripLeds)),
                       Animation_new(AnimationParameters("FillRainbow", "MarqueeFade"),
                                     default_translation_array(StripLeds, StripLeds))>>,
                     frame_rate)
       IN  /\ animation_array = lc.animations
           /\ office_strip = lc.logical_strip
           /\ timer_ch1 = lc.timer
    /\ pins = [p \in 1..Len(LC_STRIPS) |-> <<>>]
    /\ trace = <<>>
    /\ overflow_checks = FALSE
    /\ panicked = FALSE
    /\ tc = TriggerCollection_new(
                [rainbow |-> TRIGGER_RAINBOW, is_rainbow_forward |-> TRUE, duration_ns |-> 0],
                frame_rate)
    /\ segment = <<>>
    /\ next_id = 0
    /\ background = <<>>
    /\ bg_log = <<>>
    /\ foreground = <<>>
    /\ fg_log = <<>>
    /\ hc = <<>>
    /\ sender = <<>>
    /\ wave = <<>>
    /\ progression = <<>>
    /\ calls = [op |-> "new", index |-> 0, a_type |-> "Trigger", offset |-> 0, count |-> 0]
    /\ stateful_rainbow = <<>>

\* animation_array[index].set_offset(a_type, offset) between two update calls
LCSetOffset(index, a_type, offset) ==
    /\ ~panicked
    /\ calls.count < MaxOffsetCalls
    /\ animation_array' =
           [animation_array EXCEPT ![index] = Animation_set_offset(@, a_type, offset)]
    /\ calls' = [op |-> "set_offset", index |-> index, a_type |-> a_type, offset |-> offset,
                 count |-> calls.count + 1]
    /\ UNCHANGED <<office_strip, timer_ch1, pins, trace, tcVars, overflow_checks, panicked,
                   bgVars, fgVars, progression, stateful_rainbow, hwVars>>

\* the requests that raise the trigger flags and the one that starts a live trigger
OffsetTriggerRequests == {p \in LCTriggerRequests : p.mode \in {"Background", "Flash"}}

OffsetNext ==
    \/ TimerMatch
    \/ LCUpdate(<<0, 0>>)
    \/ \E params \in OffsetTriggerRequests : LCTrigger(1, params, 0)
    \/ \E a_type \in AnimationTypes, offset \in LCOffsets : LCSetOffset(1, a_type, offset)

SpecOffset == OffsetInit /\ [][OffsetNext]_vars

\* every field of a layer state but its offset
BesideOffset(state) ==
    <<state.frames, state.step_frames, state.current_rainbow_color_index,
      state.has_been_triggered, state.marquee_position_toggle>>

\* C27: a set_offset call for the Background stores the value in the offset of the
\* background state and leaves the foreground offset alone, a call for the Foreground
\* does the converse, and a call for the Trigger changes neither.  No call changes a
\* Progression, a palette cursor, a trigger flag, the live triggers, the parameters or
\* a pixel of the strip, and the other animations are left as they were.
C27_SetOffset ==
    [][calls'.count = calls.count + 1 =>
          LET i == calls'.index
              before == animation_array[i]
              after == animation_array'[i]
          IN  /\ after.bg_state.offset =
                     IF calls'.a_type = "Background" THEN calls'.offset
                                                     ELSE before.bg_state.offset
              /\ after.fg_state.offset =
                     IF calls'.a_type = "Foreground" THEN calls'.offset
                                                     ELSE before.fg_state.offset
              /\ BesideOffset(after.bg_state) = BesideOffset(before.bg_state)
              /\ BesideOffset(after.fg_state) = BesideOffset(before.fg_state)
              /\ after.trigger_state = before.trigger_state
              /\ after.triggers = before.triggers
              /\ after.parameters = before.parameters
              /\ after.random_number_generator = before.random_number_generator
              /\ \A j \in (1..Len(animation_array)) \ {i} :
                     animation_array'[j] = animation_array[j]
              /\ office_strip' = office_strip
              /\ pins' = pins]_vars

\* a background offset was set while a trigger was live, the layers had been triggered
\* and the foreground kept another offset
C27_Witness ==
    /\ calls.op = "set_offset"
    /\ calls.a_type = "Background"
    /\ animation_array[1].bg_state.offset = calls.offset
    /\ animation_array[1].fg_state.offset # calls.offset
    /\ animation_array[1].bg_state.has_been_triggered
    /\ Len(animation_array[1].triggers) > 0
    /\ animation_array[1].bg_state.frames.current > 0

-----------------------------------------------------------------------------
(* A StatefulRainbow driven by the calls of its interface *)

\* peek_last_color that looks ahead instead of back
peek_last_color_ahead(r) == rainbow_index(r.backer, peek_next(r.position))

\* StatefulRainbow::peek_last_color
peek_last_color(r) == rainbow_index(r.backer, peek_prev(r.position))

\* StatefulRainbow::decrement
rainbow_decrement(r) == [r EXCEPT !.position = decrement(@)]

\* Index<usize> for ReversibleRainbow halts when the slice index is out of range
rainbow_index_panics(backer, index) ==
    LET at == IF backer.is_forward THEN index ELSE Len(backer.backer) - 1 - index
    IN  at < 0 \/ at >= Len(backer.backer)

\* colours of the longest palette explored, and the palettes cut from them
MaxPalette == 5
PaletteColors == <<C_RED, C_GREEN, C_BLUE, C_WHITE, C_OFF, Color(255, 255, 0)>>
Palettes == {SubSeq(PaletteColors, 1, n) : n \in 0..MaxPalette}

RainbowInit ==
    /\ \E palette \in Palettes, is_forward \in BOOLEAN :
           stateful_rainbow = StatefulRainbow_new(palette, is_forward)
    /\ calls = [op |-> "new", color |-> None, before |-> <<>>]
    /\ progression = <<>>
    /\ panicked = FALSE
    /\ overflow_checks = FALSE
    /\ tc = <<>>
    /\ segment = <<>>
    /\ next_id = 0
    /\ animation_array = <<>>
    /\ office_strip = <<>>
    /\ timer_ch1 = <<>>
    /\ pins = <<>>
    /\ trace = <<>>
    /\ background = <<>>
    /\ bg_log = <<>>
    /\ foreground = <<>>
    /\ fg_log = <<>>
    /\ hc = <<>>
    /\ sender = <<>>
    /\ wave = <<>>

\* a call that moves the cursor
Moved(name, after) ==
    /\ ~panicked
    /\ stateful_rainbow' = after
    /\ calls' = [op |-> name, color |-> None, before |-> stateful_rainbow]
    /\ UNCHANGED <<progression, panicked, tcVars, overflow_checks, lcVars, bgVars, fgVars, hwVars>>

\* a call that reads the colour at index through the backer
Read(name, index, color) ==
    /\ ~panicked
    /\ panicked' = rainbow_index_panics(stateful_rainbow.backer, index)
    /\ calls' = [op |-> name, color |-> IF panicked' THEN None ELSE color,
                 before |-> stateful_rainbow]
    /\ UNCHANGED <<stateful_rainbow, progression, tcVars, overflow_checks, lcVars, bgVars, fgVars,
                   hwVars>>

RainbowIncrement == Moved("increment", rainbow_increment(stateful_rainbow))

RainbowDecrement == Moved("decrement", rainbow_decrement(stateful_rainbow))

RainbowReset == Moved("reset", rainbow_reset(stateful_rainbow))

RainbowCurrentColor ==
    Read("current_color", get_current(stateful_rainbow.position), current_color(stateful_rainbow))

RainbowPeekNextColor ==
    Read("peek_next_color", peek_next(stateful_rainbow.position), peek_next_color(stateful_rainbow))

RainbowPeekLastColor ==
    Read("peek_last_color", peek_prev(stateful_rainbow.position), peek_last_color(stateful_rainbow))

RainbowNext ==
    \/ RainbowIncrement
    \/ RainbowDecrement
    \/ RainbowReset
    \/ RainbowCurrentColor
    \/ RainbowPeekNextColor
    \/ RainbowPeekLastColor

SpecRainbow == RainbowInit /\ [][RainbowNext]_vars

\* entry of a palette of n colours that a read at cursor position at returns: counted
\* from the front of a forward palette and from the back of a reversed one
PaletteEntry(r, at) ==
    LET n == Len(r.backer.backer)
    IN  IF r.backer.is_forward THEN r.backer.backer[(at % n) + 1]
        ELSE r.backer.backer[(n - 1 - (at % n)) + 1]

\* C28: over a palette of N >= 1 colours the total of the position is N after any
\* sequence of increment, decrement and reset, the position stays in 0..N-1 and no
\* read halts; current_color, peek_next_color and peek_last_color leave the rainbow
\* as it was and return palette[p], palette[(p+1) mod N] and palette[(p-1) mod N] of
\* a forward palette and palette[N-1-p], palette[N-1-((p+1) mod N)] and
\* palette[N-1-((p-1) mod N)] of a reversed one.
C28_RainbowReads ==
    /\ [](Len(stateful_rainbow.backer.backer) >= 1 =>
              /\ stateful_rainbow.position.total = Len(stateful_rainbow.backer.backer)
              /\ stateful_rainbow.position.current
                     \in 0..(Len(stateful_rainbow.backer.backer) - 1)
              /\ ~panicked)
    /\ [][Len(stateful_rainbow.backer.backer) >= 1 =>
              LET r == stateful_rainbow
                  n == Len(r.backer.backer)
                  p == r.position.current
              IN  /\ calls'.op = "current_color" =>
                         stateful_rainbow' = r /\ calls'.color = PaletteEntry(r, p)
                  /\ calls'.op = "peek_next_color" =>
                         stateful_rainbow' = r /\ calls'.color = PaletteEntry(r, p + 1)
                  /\ calls'.op = "peek_last_color" =>
                         stateful_rainbow' = r /\ calls'.color = PaletteEntry(r, p + n - 1)
                  /\ stateful_rainbow'.backer = r.backer]_vars

\* the colour before the cursor was read from a reversed palette of three colours or
\* more after the cursor had left position 0
C28_Witness ==
    LET r == stateful_rainbow
    IN  /\ calls.op = "peek_last_color"
        /\ Len(r.backer.backer) >= 3
        /\ ~r.backer.is_forward
        /\ r.position.current > 0
        /\ calls.color = r.backer.backer[Len(r.backer.backer) - r.position.current + 1]

-----------------------------------------------------------------------------
(* The bits of a strip, pulled from the iterators and built from a byte buffer *)

\* lib.rs: get_single_strip_buffer_max_length, three bytes per led of the longest strip
RECURSIVE get_single_strip_buffer_max_length(_)
get_single_strip_buffer_max_length(strips) ==
    IF strips = <<>> THEN 0
    ELSE LET rest == get_single_strip_buffer_max_length(Tail(strips))
         IN  IF 3 * Head(strips).led_count > rest THEN 3 * Head(strips).led_count ELSE rest

\* colors_to_bytes that stores every colour as r, g, b
colors_to_bytes_rgb(colors, color_order, length) ==
    [j \in 1..length |->
        IF (j - 1) \div 3 < Len(colors)
        THEN InOrder("RGB", colors[((j - 1) \div 3) + 1])[((j - 1) % 3) + 1]
        ELSE 0]

\* LogicalStrip::colors_to_bytes into a zeroed buffer of MAX_SINGLE_STRIP_BYTE_BUFFER_LENGTH
\* bytes: colour i stores r, g and b at base + offsets[0], [1] and [2], base = 3 * i
RECURSIVE colors_to_bytes_from(_, _, _, _)
colors_to_bytes_from(byte_buffer, colors, o, i) ==
    IF i >= Len(colors) THEN byte_buffer
    ELSE colors_to_bytes_from(
             [[[byte_buffer EXCEPT ![3 * i + o[1] + 1] = colors[i + 1].r]
                            EXCEPT ![3 * i + o[2] + 1] = colors[i + 1].g]
                            EXCEPT ![3 * i + o[3] + 1] = colors[i + 1].b],
             colors, o, i + 1)

colors_to_bytes(colors, color_order, length) ==
    colors_to_bytes_from([j \in 1..length |-> 0], colors, offsets(color_order), 0)

\* LogicalStrip::bytes_as_bit_slice: view_bits::<Msb0>() of the bytes
bytes_as_bit_slice(byte_buffer) ==
    [j \in 1..(8 * Len(byte_buffer)) |->
        (byte_buffer[((j - 1) \div 8) + 1] \div (2 ^ (7 - ((j - 1) % 8)))) % 2 = 1]

\* the colours of the strip at pin_index as send_all_sequential walks them
strip_colors(logical_strip, pin_index) ==
    LET start_index == total_led_count(SubSeq(logical_strip.strips, 1, pin_index))
        strip == logical_strip.strips[pin_index + 1]
        current_strip_colors ==
            SubSeq(logical_strip.color_buffer, start_index + 1, start_index + strip.led_count)
    IN  IF strip.reversed THEN rev(current_strip_colors) ELSE current_strip_colors

\* the bit slice of send_all_sequential for the strip at pin_index: colors_to_bytes,
\* then bytes_as_bit_slice(&byte_buffer[..byte_count]) with byte_count = led_count * 3
strip_bit_slice(logical_strip, pin_index) ==
    LET strip == logical_strip.strips[pin_index + 1]
        byte_buffer ==
            colors_to_bytes(strip_colors(logical_strip, pin_index), strip.color_order,
                            get_single_strip_buffer_max_length(logical_strip.strips))
    IN  bytes_as_bit_slice(SubSeq(byte_buffer, 1, strip.led_count * 3))

\* leds of the strip converted
BitLeds == 2

\* two strips: the first of 1..BitLeds leds in either direction and any colour order,
\* the second of one led; every led holds one of the colours of SendColors
BitsInit ==
    /\ \E n \in 1..BitLeds, reversed \in BOOLEAN, order \in ColorOrders :
          \E colors \in [1..(n + 1) -> SendColors] :
              office_strip =
                  [LogicalStrip_new(<<PhysicalStrip(n, reversed, order, WS2812_ADAFRUIT),
                                      PhysicalStrip(1, ~reversed, "GRB", WS2812_ADAFRUIT)>>)
                      EXCEPT !.color_buffer = colors]
    /\ sender = [pc |-> "idle"]
    /\ calls = <<>>
    /\ stateful_rainbow = <<>>
    /\ progression = <<>>
    /\ panicked = FALSE
    /\ overflow_checks = FALSE
    /\ tc = <<>>
    /\ segment = <<>>
    /\ next_id = 0
    /\ animation_array = <<>>
    /\ timer_ch1 = <<>>
    /\ pins = <<>>
    /\ trace = <<>>
    /\ background = <<>>
    /\ bg_log = <<>>
    /\ foreground = <<>>
    /\ fg_log = <<>>
    /\ hc = <<>>
    /\ wave = <<>>

\* both conversions of the strip at pin_index begin: the bit slice is built at once,
\* the iterators are constructed and nothing is pulled from them yet
BitsStart(pin_index) ==
    /\ sender.pc = "idle"
    /\ sender' = [pc |-> "pulling", pin_index |-> pin_index,
                  bit_iter |-> strip_bit_iter(
                                   office_strip, pin_index,
                                   total_led_count(SubSeq(office_strip.strips, 1, pin_index))),
                  bytes |-> <<>>, bits |-> <<>>]
    /\ calls' = [bit_slice |-> strip_bit_slice(office_strip, pin_index)]
    /\ UNCHANGED <<office_strip, animation_array, timer_ch1, pins, trace, tcVars,
                   overflow_checks, panicked, bgVars, fgVars, progression, stateful_rainbow,
                   hc, wave>>

\* bits.next(): the bit pulled is recorded, and so is the byte the BitIter pulled from
\* the ByteIter when its mask had run out
BitsPull ==
    /\ sender.pc = "pulling"
    /\ \E n \in {BitIter_next(sender.bit_iter)} :
           sender' = [sender EXCEPT
                         !.pc = IF n.item.some THEN "pulling" ELSE "done",
                         !.bit_iter = n.it,
                         !.bytes = IF n.item.some /\ sender.bit_iter.mask = 0
                                   THEN Append(@, n.it.current_byte) ELSE @,
                         !.bits = IF n.item.some THEN Append(@, n.item.value) ELSE @]
    /\ UNCHANGED <<calls, office_strip, animation_array, timer_ch1, pins, trace, tcVars,
                   overflow_checks, panicked, bgVars, fgVars, progression, stateful_rainbow,
                   hc, wave>>

BitsNext ==
    \/ \E pin_index \in 0..1 : BitsStart(pin_index)
    \/ BitsPull

SpecBits == BitsInit /\ [][BitsNext]_vars

\* C29: the bits pulled so far from into_bytes(order).into_bits() over the colours of a
\* strip are the first bits of the bit slice built from colors_to_bytes over the same
\* colours, cut to 3 x led_count bytes; when the iterator is exhausted the two
\* sequences are equal and 24 x led_count bits long.
C29_LazyEqualsEager ==
    sender.pc \in {"pulling", "done"} =>
        /\ Len(sender.bits) <= Len(calls.bit_slice)
        /\ sender.bits = SubSeq(calls.bit_slice, 1, Len(sender.bits))
        /\ sender.pc = "done" =>
               /\ sender.bits = calls.bit_slice
               /\ Len(sender.bits) =
                      24 * office_strip.strips[sender.pin_index + 1].led_count

\* a reversed strip of two leds holding different colours, in an order other than RGB,
\* has been pulled to its end
C29_Witness ==
    /\ sender.pc = "done"
    /\ sender.pin_index = 0
    /\ office_strip.strips[1].reversed
    /\ office_strip.strips[1].led_count = 2
    /\ office_strip.strips[1].color_order = "BRG"
    /\ office_strip.color_buffer[1] # office_strip.color_buffer[2]
    /\ sender.bits = calls.bit_slice
    /\ Len(sender.bits) = 48

\* C30: the offsets of every colour order are a permutation of {0, 1, 2}, and the bytes
\* the ByteIter of a strip hands out are, pixel after pixel, the three channel bytes in
\* the order the name of the strip's colour order spells.
C30_OrderSpelledByName ==
    /\ \A order \in ColorOrders :
           {offsets(order)[k] : k \in 1..3} = {0, 1, 2}
    /\ sender.pc \in {"pulling", "done"} =>
           \A j \in 1..Len(sender.bytes) :
               sender.bytes[j] =
                   InOrder(office_strip.strips[sender.pin_index + 1].color_order,
                           strip_colors(office_strip, sender.pin_index)[((j - 1) \div 3) + 1])
                       [((j - 1) % 3) + 1]

\* the three bytes of a pixel have left a GBR strip as g, b, r
C30_Witness ==
    /\ sender.pc \in {"pulling", "done"}
    /\ sender.pin_index = 0
    /\ office_strip.strips[1].color_order = "GBR"
    /\ ~office_strip.strips[1].reversed
    /\ Len(sender.bytes) >= 3
    /\ SubSeq(sender.bytes, 1, 3) =
           <<office_strip.color_buffer[1].g, office_strip.color_buffer[1].b,
             office_strip.color_buffer[1].r>>

-----------------------------------------------------------------------------
(* A Background that fills its segment with the rainbow, at offsets set from outside *)

\* the offsets stored into Background::offset and the numbers of subdivisions explored:
\* the last one leaves no whole offset between two colours of a rainbow of two or more
FillOffsets == {0, 1, 21845, 32768, 65535}
FillSubdivisions == {0, 1, 2, 3, 65535}

FillParameters ==
    {[mode |-> "FillRainbow", rainbow |-> rb, direction |-> "Positive",
      is_rainbow_forward |-> fwd, duration_ns |-> ns_of_half_frames(4),
      subdivisions |-> sub] :
        rb \in BgRainbows, fwd \in BOOLEAN, sub \in FillSubdivisions}

\* the most LEDs of the segment filled
FillLeds == 3

FillInit ==
    /\ \E init \in FillParameters, len \in 1..FillLeds :
          /\ background = Background_new(init, frame_rate)
          /\ segment = [i \in 1..len |-> C_WHITE]
    /\ bg_log = [updates |-> 0, requests |-> 0, served |-> 0, triggered |-> FALSE]
    /\ foreground = <<>>
    /\ fg_log = <<>>
    /\ overflow_checks = FALSE
    /\ panicked = FALSE
    /\ ControllerIdle
    /\ progression = <<>>
    /\ calls = <<>>
    /\ stateful_rainbow = <<>>
    /\ hc = <<>>
    /\ sender = <<>>
    /\ wave = <<>>

\* background.offset = offset, the field being public
BGSetOffset(offset) ==
    /\ ~panicked
    /\ bg_log.updates < MaxBgUpdates
    /\ background.offset # offset
    /\ background' = [background EXCEPT !.offset = offset]
    /\ UNCHANGED <<bg_log, tc, segment, next_id, overflow_checks, panicked, lcVars, fgVars,
                   pgVars, hwVars>>

FillNext ==
    \/ BGTrigger
    \/ \E random \in RandomOffsets : BGUpdate(random)
    \/ \E offset \in FillOffsets : BGSetOffset(offset)

SpecFill == FillInit /\ [][FillNext]_vars

\* what the fill is to give led i of led_count leds at start offset s: the distance d
\* between two colours, the bucket b, the factor and the two palette colours
FillOf(bg, s, led_count, i) ==
    LET n == Len(bg.rainbow.backer.backer)
        d == MAX_OFFSET \div (n * (IF bg.subdivisions > 1 THEN bg.subdivisions ELSE 1))
        shifted == (i * (MAX_OFFSET \div led_count) + MAX_OFFSET - s) % MAX_OFFSET
        b == shifted \div d
    IN  [d |-> d, b |-> b, factor |-> shifted - b * d,
         from |-> PaletteEntry(bg.rainbow, b), to |-> PaletteEntry(bg.rainbow, b + 1)]

\* C31: an update of a FillRainbow background completes, and it gives led i the
\* interpolation between palette[b mod N] and palette[(b+1) mod N] at a factor in
\* 0 .. d-1 out of d, where the led stands at i x (MAX_OFFSET / led_count), shifted by
\* the offset modulo MAX_OFFSET, d = MAX_OFFSET / (N x max(1, subdivisions)) and
\* b = shifted / d; at offset 0 led 0 gets exactly palette[0].
C31_FillRainbow ==
    [][/\ ~panicked'
       /\ bg_log'.updates = bg_log.updates + 1 =>
              /\ \A i \in 0..(Len(segment) - 1) :
                     LET f == FillOf(background', background'.offset, Len(segment), i)
                     IN  /\ f.d >= 1
                         /\ f.factor \in 0..(f.d - 1)
                         /\ segment'[i + 1] = color_lerp(f.factor, 0, f.d, f.from, f.to)
              /\ background'.offset = 0 => segment'[1] = PaletteEntry(background'.rainbow, 0)]_vars

-----------------------------------------------------------------------------
(* The start offset of the rotating rainbow fill *)

\* update_bg_fill_rainbow_rotate (animations.rs): color_start_offset is a u16, the
\* shift is cast to u16 and added to it in 16 bits, then the sum is reduced modulo
\* MAX_OFFSET; the addition panics on overflow when overflow checks are on and wraps
\* when they are off
Animation_color_start_offset(offset, frames, checks) ==
    LET sum == IF frames.total # 0
               THEN offset + AsU16((MAX_OFFSET * frames.current) \div frames.total)
               ELSE offset
    IN  [panic |-> sum > 65535 /\ checks, value |-> AsU16(sum) % MAX_OFFSET]

\* the base offsets explored and the longest duration in frames
BaseOffsets == {0, 1, 21845, 32768, 43690, 65534, 65535}
MaxRotateFrames == 4

RotateInit ==
    /\ \E total \in 0..MaxRotateFrames :
           progression \in {Progression_new(total), Animation_Progression(total)}
    /\ calls = [op |-> "none"]
    /\ overflow_checks \in BOOLEAN
    /\ panicked = FALSE
    /\ stateful_rainbow = <<>>
    /\ tc = <<>>
    /\ segment = <<>>
    /\ next_id = 0
    /\ animation_array = <<>>
    /\ office_strip = <<>>
    /\ timer_ch1 = <<>>
    /\ pins = <<>>
    /\ trace = <<>>
    /\ background = <<>>
    /\ bg_log = <<>>
    /\ foreground = <<>>
    /\ fg_log = <<>>
    /\ hc = <<>>
    /\ sender = <<>>
    /\ wave = <<>>

\* the frame counter of the layer advances
RotateFrame ==
    /\ ~panicked
    /\ progression' = IF IsUtility(progression) THEN increment(progression)
                      ELSE Animation_increment(progression)
    /\ UNCHANGED <<calls, stateful_rainbow, tcVars, overflow_checks, panicked, lcVars, bgVars,
                   fgVars, hwVars>>

\* fill_rainbow_rotate of background.rs asks shift_offset for the start offset
RotateShiftOffset(offset) ==
    /\ ~panicked
    /\ IsUtility(progression)
    /\ calls' = [op |-> "shift_offset", offset |-> offset, frames |-> progression,
                 start_offset |-> shift_offset(offset, progression, "Positive")]
    /\ UNCHANGED <<progression, stateful_rainbow, tcVars, overflow_checks, panicked, lcVars,
                   bgVars, fgVars, hwVars>>

\* update_bg_fill_rainbow_rotate of animations.rs computes the start offset itself
RotateColorStartOffset(offset) ==
    /\ ~panicked
    /\ ~IsUtility(progression)
    /\ \E r \in {Animation_color_start_offset(offset, progression, overflow_checks)} :
           /\ panicked' = r.panic
           /\ calls' = [op |-> "color_start_offset", offset |-> offset,
                        frames |-> progression,
                        start_offset |-> IF r.panic THEN None ELSE r.value]
    /\ UNCHANGED <<progression, stateful_rainbow, tcVars, overflow_checks, lcVars, bgVars,
                   fgVars, hwVars>>

RotateNext ==
    \/ RotateFrame
    \/ \E offset \in BaseOffsets : RotateShiftOffset(offset)
    \/ \E offset \in BaseOffsets : RotateColorStartOffset(offset)

SpecRotate == RotateInit /\ [][RotateNext]_vars

\* the frame a Progression of either revision stands at
FrameOf(p) == IF IsUtility(p) THEN get_current(p) ELSE p.current

\* C32: the start offset of the rotating fill is the base offset when the duration is
\* 0 frames, and otherwise (base + MAX_OFFSET x current_frame / total_frames) modulo
\* MAX_OFFSET, the sum formed without overflow or wrap at 2^16, for every base offset
\* and frame; the computation never halts.
C32_RotateStartOffset ==
    calls.op \in {"shift_offset", "color_start_offset"} =>
        /\ ~panicked
        /\ calls.start_offset =
               IF calls.frames.total = 0 THEN calls.offset
               ELSE (calls.offset + (MAX_OFFSET * FrameOf(calls.frames)) \div calls.frames.total)
                        % MAX_OFFSET

-----------------------------------------------------------------------------
(* One ColorShot trigger at a time, drawn over a dark segment *)

\* the most LEDs of the segment a shot runs over
ShotLeds == 3

ShotOffsets == {0, 21845, 43690, 65535}

\* ColorShot requests of every direction, of 2 and 4 frames, with groups of 0..2 LEDs
ShotRequests ==
    {[mode |-> "ColorShot", direction |-> dir,
      fade_in_time_ns |-> ns_of_half_frames(f), fade_out_time_ns |-> ns_of_half_frames(f),
      starting_offset |-> offset, pixels_per_pixel_group |-> group] :
        dir \in {"Positive", "Negative", "Stopped"}, f \in {2, 4}, offset \in ShotOffsets,
        group \in 0..2}

ShotInit ==
    /\ tc = TriggerCollection_new(
                [rainbow |-> TRIGGER_RAINBOW, is_rainbow_forward |-> TRUE,
                 duration_ns |-> ns_of_half_frames(4)], frame_rate)
    /\ \E len \in 1..ShotLeds : segment = [i \in 1..len |-> C_OFF]
    /\ next_id = 0
    /\ overflow_checks = FALSE
    /\ panicked = FALSE
    /\ animation_array = <<>>
    /\ office_strip = <<>>
    /\ timer_ch1 = <<>>
    /\ pins = <<>>
    /\ trace = <<>>
    /\ UnitsIdle

\* add_trigger once the last shot has left the collection
ShotAdd(init) ==
    /\ Len(tc.triggers) = 0
    /\ AddTrigger(init, 0)

\* update over the segment as the lower layers leave it: dark
ShotUpdate == Update([i \in 1..Len(segment) |-> C_OFF])

ShotNext ==
    \/ \E init \in ShotRequests : ShotAdd(init)
    \/ ShotUpdate

SpecShot == ShotInit /\ [][ShotNext]_vars

\* the offset of a shot at frame k of total frames
ShotOffset(t, k) ==
    CASE t.direction = "Positive" ->
             (t.offset + (MAX_OFFSET * k) \div t.frames.total) % 65536
      [] t.direction = "Negative" ->
             (t.offset + (MAX_OFFSET * (t.frames.total - k)) \div t.frames.total) % 65536
      [] t.direction = "Stopped" -> t.offset

\* the LEDs (from 1) of the run of a shot at frame k over len LEDs
ShotRun(t, k, len) ==
    LET first == ShotOffset(t, k) \div (MAX_OFFSET \div len)
        width == IF t.pixels_per_pixel_group > 1 THEN t.pixels_per_pixel_group ELSE 1
    IN  {((first + j) % len) + 1 : j \in 0..(width - 1)}

\* C33: an update that draws a ColorShot trigger at its frame k completes and sets to
\* the trigger colour exactly the run of max(1, pixels_per_pixel_group) LEDs, wrapped
\* modulo the segment length, that starts at the LED index of the offset
\* starting_offset + MAX_OFFSET x k / T (Positive), starting_offset +
\* MAX_OFFSET x (T - k) / T (Negative) or starting_offset (Stopped), reduced to 16 bits.
C33_ShotMoves ==
    [][Len(tc.triggers) = 1 /\ next_id' = next_id =>
          LET t == tc.triggers[1]
              run == ShotRun(t, get_current(t.frames), Len(segment))
          IN  /\ ~panicked'
              /\ run \subseteq 1..Len(segment)
              /\ segment' = [i \in 1..Len(segment) |-> IF i \in run THEN t.color ELSE C_OFF]]_vars

\* a shot running backwards over three LEDs has moved off the LED it started at and
\* its run of two LEDs wraps around the end of the segment
C33_Witness ==
    /\ Len(tc.triggers) = 1
    /\ tc.triggers[1].direction = "Negative"
    /\ tc.triggers[1].pixels_per_pixel_group = 2
    /\ tc.triggers[1].offset = 0
    /\ get_current(tc.triggers[1].frames) = 2
    /\ Len(segment) = 3
    /\ segment[3] # C_OFF
    /\ segment[1] # C_OFF
    /\ segment[2] = C_OFF

-----------------------------------------------------------------------------
(* A solid marquee rendered over backgrounds that are not dark *)

\* the most LEDs of the segment under the marquee
MarqueeLeds == 7

\* the largest pixel group of the marquee
MaxGroup == 3

MarqueeParameters ==
    {[mode |-> "MarqueeSolid", rainbow |-> <<C_RED, C_GREEN>>, direction |-> "Positive",
      is_rainbow_forward |-> TRUE, duration_ns |-> ns_of_half_frames(4),
      step_time_ns |-> ns_of_half_frames(2 * s), subdivisions |-> 1,
      pixels_per_pixel_group |-> g] : s \in 1..2, g \in 1..MaxGroup}

\* what the background layer leaves in the segment: one colour, or two in turns
Lowers(len) ==
    {[i \in 1..len |-> C_OFF], [i \in 1..len |-> C_BLUE],
     [i \in 1..len |-> IF i % 2 = 0 THEN C_BLUE ELSE C_WHITE]}

MarqueeInit ==
    /\ \E init \in MarqueeParameters, len \in 1..MarqueeLeds :
          /\ foreground = Foreground_new(init, frame_rate)
          /\ segment = Blank(len)
    /\ fg_log = [updates |-> 0, last |-> "new", lower |-> <<>>]
    /\ overflow_checks = FALSE
    /\ panicked = FALSE
    /\ ControllerIdle
    /\ background = <<>>
    /\ bg_log = <<>>
    /\ progression = <<>>
    /\ calls = <<>>
    /\ stateful_rainbow = <<>>
    /\ hc = <<>>
    /\ sender = <<>>
    /\ wave = <<>>

\* foreground.update(segment) of one frame, over what the background has rendered
MarqueeUpdate(lower) ==
    /\ ~panicked
    /\ fg_log.updates < MaxFgUpdates
    /\ \E r \in {Foreground_update(foreground, lower)} :
          /\ foreground' = r.fg
          /\ segment' = r.segment
          /\ panicked' = r.panic
    /\ fg_log' = [updates |-> fg_log.updates + 1, last |-> "update", lower |-> lower]
    /\ UNCHANGED <<tc, next_id, overflow_checks, lcVars, bgVars, pgVars, hwVars>>

MarqueeNext == \E lower \in Lowers(Len(segment)) : MarqueeUpdate(lower)

SpecMarquee == MarqueeInit /\ [][MarqueeNext]_vars

\* the LEDs (from 0) whose place in the double group, below g or not, equals the parity
ParityLeds(len, g, toggle) == {i \in 0..(len - 1) : ((i % (2 * g)) < g) = toggle}

\* the LEDs (from 0) that differ between two segments
Painted(before, after) == {i \in 0..(Len(after) - 1) : after[i + 1] # before[i + 1]}

\* C34: fill_marquee with group size g >= 1 sets to the marquee colour exactly the
\* LEDs i with (i mod 2g < g) equal to the parity toggle and leaves every other LED as
\* the background rendered it; the LEDs painted under the other parity are the
\* complement, and the painted LEDs are every second run of g LEDs.
C34_MarqueePattern ==
    [][fg_log'.updates = fg_log.updates + 1 =>
          LET g == foreground'.pixels_per_pixel_group
              toggle == foreground'.marquee_position_toggle
              lower == fg_log'.lower
              color == Foreground_current_color(foreground'.base_state.rainbow)
              lit == ParityLeds(Len(lower), g, toggle)
              other == Foreground_fill_marquee(
                           [foreground' EXCEPT !.marquee_position_toggle = ~toggle],
                           color, lower)
          IN  /\ ~panicked'
              /\ g >= 1
              /\ segment' = [i \in 1..Len(lower) |->
                                IF (i - 1) \in lit THEN color ELSE lower[i]]
              /\ Painted(lower, segment') = lit
              /\ Painted(lower, other) = (0..(Len(lower) - 1)) \ lit
              /\ \A i \in 0..(Len(lower) - 1) :
                     i \in lit <=> ((i \div g) % 2 = 0) = toggle]_vars

\* a marquee in groups of three over seven LEDs, rendered over a background of two
\* colours with the parity flipped: the fourth to sixth LED are lit and the first
\* three and the seventh show the background
C34_Witness ==
    /\ fg_log.updates > 0
    /\ foreground.pixels_per_pixel_group = 3
    /\ ~foreground.marquee_position_toggle
    /\ Len(segment) = 7
    /\ segment[1] = C_WHITE /\ segment[2] = C_BLUE /\ segment[3] = C_WHITE
    /\ segment[4] = segment[5] /\ segment[5] = segment[6]
    /\ segment[4] \in {C_RED, C_GREEN}
    /\ segment[7] = C_WHITE

-----------------------------------------------------------------------------
(* The duration Progression of the fading marquees *)

FadingModes == {"MarqueeFade", "MarqueeFadeFixed"}

\* C35: an update in MarqueeFade or MarqueeFadeFixed that follows no trigger request
\* advances the duration Progression of the foreground by exactly one frame, and the
\* palette cursor advances by one exactly when that frame wraps the counter (a fade
\* over D frames takes D updates).
C35_OneFramePerUpdate ==
    [][/\ IsFGUpdate
       /\ InMode(FadingModes)
       /\ ~foreground.base_state.has_been_triggered
       /\ foreground.base_state.frames.total > 1
       => LET frames == foreground.base_state.frames
              position == foreground.base_state.rainbow.position
          IN  /\ foreground'.base_state.frames = increment(frames)
              /\ foreground'.base_state.rainbow.position =
                     IF checked_increment(frames) THEN increment(position) ELSE position
      ]_vars

-----------------------------------------------------------------------------
(* Triggers whose fade times are shorter than a frame *)

\* the longest fade-in and fade-out, in half frames
MaxFadeHalves == 3

\* requests whose fade-in and fade-out times make 0, 1, 2 and 3 frames in all, with a
\* fade-in of 0 and of 1 frame
ShortRequests ==
    {[mode |-> m, direction |-> "Positive",
      fade_in_time_ns |-> ns_of_half_frames(f_in),
      fade_out_time_ns |-> ns_of_half_frames(f_out),
      starting_offset |-> 0, pixels_per_pixel_group |-> 1] :
        m \in {"Flash", "ColorPulse", "ColorShot"},
        f_in \in 0..MaxFadeHalves, f_out \in 0..MaxFadeHalves}

ShortInit ==
    /\ tc = TriggerCollection_new(
                [rainbow |-> TRIGGER_RAINBOW, is_rainbow_forward |-> TRUE,
                 duration_ns |-> ns_of_half_frames(4)], frame_rate)
    /\ segment = [i \in 1..SegLen |-> C_OFF]
    /\ next_id = 0
    /\ overflow_checks \in BOOLEAN
    /\ panicked = FALSE
    /\ animation_array = <<>>
    /\ office_strip = <<>>
    /\ timer_ch1 = <<>>
    /\ pins = <<>>
    /\ trace = <<>>
    /\ UnitsIdle

ShortNext ==
    \/ \E init \in ShortRequests : AddTrigger(init, 0)
    \/ \E lower \in LowerSegments : Update(lower)

SpecShort == ShortInit /\ [][ShortNext]_vars

\* C36: add_trigger and every update complete for every trigger, also one of 0 or 1
\* frames or with a fade-in of 0 frames (no unsigned underflow, no zero divisor);
\* transition_frame <= frames.total holds for every live trigger; and every update
\* moves each trigger it keeps one frame further, so that a trigger of T frames has
\* left the collection after at most T updates.
C36_ShortTriggers ==
    /\ [](~panicked)
    /\ [](\A i \in 1..Len(tc.triggers) :
              tc.triggers[i].transition_frame <= tc.triggers[i].frames.total)
    /\ [][next_id' = next_id =>
              \A i \in 1..Len(tc'.triggers) :
                  \E j \in 1..Len(tc.triggers) :
                      /\ tc.triggers[j].id = tc'.triggers[i].id
                      /\ get_current(tc'.triggers[i].frames)
                             = get_current(tc.triggers[j].frames) + 1
                      /\ get_current(tc'.triggers[i].frames) < tc.triggers[j].frames.total
         ]_vars

-----------------------------------------------------------------------------
(* The VUMeter foreground *)

\* C37: for every offset set_offset accepts and every segment of at least one LED, the
\* VUMeter update completes, its cut position offset / led_count lies within
\* 0 .. led_count, and it switches off only the LEDs at or above the cut.
C37_VUMeterInRange ==
    [][InMode({"VUMeter"}) /\ fg_log'.updates = fg_log.updates + 1 =>
          LET led_count == Len(segment)
              cut == foreground.base_state.offset \div led_count
          IN  /\ ~panicked'
              /\ cut \in 0..led_count
              /\ \A i \in 1..led_count :
                     segment'[i] = IF i - 1 >= cut THEN C_OFF ELSE Blank(led_count)[i]]_vars

-----------------------------------------------------------------------------
(* A LogicalStrip written led by led and filled as a whole *)

\* LogicalStrip::set_strip_to_solid_color: every entry of the colour buffer is set
set_strip_to_solid_color(logical_strip, color) ==
    [logical_strip EXCEPT !.color_buffer = [i \in 1..Len(@) |-> color]]

\* office_strip.set_strip_to_solid_color(color)
SetStripToSolidColor(color) ==
    /\ ~panicked
    /\ office_strip.color_buffer # [i \in 1..Len(office_strip.color_buffer) |-> color]
    /\ office_strip' = set_strip_to_solid_color(office_strip, color)
    /\ trace' = [index |-> 0, color |-> color, panic |-> "none"]
    /\ UNCHANGED <<tc, segment, next_id, overflow_checks, panicked, animation_array, timer_ch1,
                   pins, unitVars>>

SolidNext ==
    \/ \E index \in SetIndices, color \in SendColors : SetColor(index, color)
    \/ \E color \in SendColors \cup {C_OFF} : SetStripToSolidColor(color)

SpecSolid == StripInit /\ [][SolidNext]_vars

\* C38: after any sequence of completed set_color_at_index and
\* set_strip_to_solid_color calls, for every logical index i of the geometry the three
\* bytes at the physical position of i are the r, g and b of color_buffer[i] in the
\* colour order of the strip that owns i.
C38_BytesFollowColors ==
    ~panicked =>
        \A i \in 0..(total_led_count(office_strip.strips) - 1) :
            LET own == OwnerOf(office_strip.strips, i)
                p == IF own.strip.reversed
                     THEN own.start + (own.strip.led_count - 1 - (i - own.start))
                     ELSE i
            IN  <<office_strip.byte_buffer[3 * p + 1], office_strip.byte_buffer[3 * p + 2],
                  office_strip.byte_buffer[3 * p + 3]>>
                    = InOrder(own.strip.color_order, office_strip.color_buffer[i + 1])

-----------------------------------------------------------------------------
(* main.rs: the sender that times its pulses by the cycle counter *)

WS2811_0H_TIME_CLOCKS == 32
WS2811_1H_TIME_CLOCKS == 96
WS2811_FULL_CYCLE_CLOCKS == 200
SEND_START_OFFSET_DELAY_CLOCKS == 50000

\* main.rs get_single_strip_buffer_max_length, times 8: MAX_SINGLE_STRIP_BIT_BUFFER_LENGTH
main_max_bit_buffer_length(strips) == get_single_strip_buffer_max_length(strips) * 8

\* main.rs set_strip_to_solid_color: set_color_at_index for every entry
main_set_strip_to_solid_color(logical_strip, color) ==
    [logical_strip EXCEPT !.color_buffer = [i \in 1..Len(@) |-> color]]

\* the byte buffer of send_all_sequential: g, r, b of every colour of the strip, the
\* colours walked backwards for a reversed strip
RECURSIVE main_bytes(_)
main_bytes(colors) ==
    IF colors = <<>> THEN <<>>
    ELSE <<Head(colors).g, Head(colors).r, Head(colors).b>> \o main_bytes(Tail(colors))

\* the timing array of send_all_sequential for one strip: an entry for each of the
\* max_bits entries of the bit buffer, the first bit_count of them set from the bits,
\* and clock_and_offset added to every entry
main_timings(logical_strip, start_index, strip, clock_and_offset) ==
    LET current_strip_colors ==
            SubSeq(logical_strip.color_buffer, start_index + 1, start_index + strip.led_count)
        byte_count == strip.led_count * 3
        bit_count == byte_count * 8
        bit_buffer == bytes_as_bit_slice(
                          main_bytes(IF strip.reversed THEN rev(current_strip_colors)
                                     ELSE current_strip_colors))
        bit_timing(i) == IF bit_buffer[i + 1] THEN WS2811_1H_TIME_CLOCKS
                         ELSE WS2811_0H_TIME_CLOCKS
    IN  [j \in 1..main_max_bit_buffer_length(logical_strip.strips) |->
            IF j - 1 < bit_count
            THEN <<WS2811_FULL_CYCLE_CLOCKS * (j - 1) + clock_and_offset,
                   WS2811_FULL_CYCLE_CLOCKS * (j - 1) + bit_timing(j - 1) + clock_and_offset>>
            ELSE <<clock_and_offset, clock_and_offset>>]

\* delay_until: the cycle count at which the loop is left
delay_until(cycle_count, clocks) == Max(cycle_count, clocks + 1)

\* the most LEDs of a strip, and the send_all_sequential calls made
CycleLeds == 2
MaxCycleSends == 2

CycleStrip(pin, led_count, reversed) ==
    [pin |-> pin, led_count |-> led_count, reversed |-> reversed]

CycleInit ==
    /\ \E n1 \in 1..CycleLeds, n2 \in 1..CycleLeds, r2 \in BOOLEAN :
          office_strip =
              [color_buffer |-> [i \in 1..(n1 + n2) |-> C_OFF],
               strips |-> <<CycleStrip(0, n1, FALSE), CycleStrip(1, n2, r2)>>]
    /\ sender = [phase |-> "idle", strip |-> 0, start_index |-> 0, timings |-> <<>>,
                 at |-> 0, sends |-> 0]
    /\ pins = [p \in 0..1 |-> FALSE]
    /\ wave = [p \in 0..1 |-> 0]
    /\ hc = 0
    /\ overflow_checks = FALSE
    /\ panicked = FALSE
    /\ tc = <<>>
    /\ segment = <<>>
    /\ next_id = 0
    /\ animation_array = <<>>
    /\ timer_ch1 = <<>>
    /\ trace = <<>>
    /\ background = <<>>
    /\ bg_log = <<>>
    /\ foreground = <<>>
    /\ fg_log = <<>>
    /\ progression = <<>>
    /\ calls = <<>>
    /\ stateful_rainbow = <<>>

CycleUnchanged ==
    UNCHANGED <<tc, segment, next_id, overflow_checks, panicked, animation_array, timer_ch1,
                trace, bgVars, fgVars, pgVars>>

\* office_strip.set_strip_to_solid_color(color) of main
CycleSetSolid(color) ==
    /\ sender.phase = "idle"
    /\ sender.sends < MaxCycleSends
    /\ office_strip.color_buffer # [i \in 1..Len(office_strip.color_buffer) |-> color]
    /\ office_strip' = main_set_strip_to_solid_color(office_strip, color)
    /\ UNCHANGED <<sender, pins, wave, hc>>
    /\ CycleUnchanged

\* office_strip.send_all_sequential(&mut pins) is entered
CycleSend ==
    /\ sender.phase = "idle"
    /\ sender.sends < MaxCycleSends
    /\ sender' = [sender EXCEPT !.phase = "prepare", !.strip = 1, !.start_index = 0,
                                !.sends = @ + 1]
    /\ wave' = [p \in 0..1 |-> 0]
    /\ UNCHANGED <<office_strip, pins, hc>>
    /\ CycleUnchanged

\* the body of `for strip in self.strips` up to the call of send_bits
CyclePrepare ==
    /\ sender.phase = "prepare"
    /\ \E strip \in {office_strip.strips[sender.strip]} :
          sender' = [sender EXCEPT
                        !.phase = "high",
                        !.timings = main_timings(office_strip, sender.start_index, strip,
                                                 hc + SEND_START_OFFSET_DELAY_CLOCKS),
                        !.at = 1]
    /\ UNCHANGED <<office_strip, pins, wave, hc>>
    /\ CycleUnchanged

\* send_bits, for each timing of the array: delay_until(timing.0);
\* push_high(self.pin, pins)
CyclePushHigh ==
    /\ sender.phase = "high"
    /\ \E pin \in {office_strip.strips[sender.strip].pin} :
          /\ hc' = delay_until(hc, sender.timings[sender.at][1])
          /\ pins' = [pins EXCEPT ![pin] = TRUE]
          /\ wave' = [wave EXCEPT ![pin] = IF pins[pin] THEN @ ELSE @ + 1]
    /\ sender' = [sender EXCEPT !.phase = "low"]
    /\ UNCHANGED office_strip
    /\ CycleUnchanged

\* send_bits: delay_until(timing.1); pull_low(self.pin, pins); after the last timing
\* the loop of send_all_sequential goes on to the next strip or returns
CyclePullLow ==
    /\ sender.phase = "low"
    /\ hc' = delay_until(hc, sender.timings[sender.at][2])
    /\ pins' = [pins EXCEPT ![office_strip.strips[sender.strip].pin] = FALSE]
    /\ sender' =
           IF sender.at < Len(sender.timings)
           THEN [sender EXCEPT !.phase = "high", !.at = @ + 1]
           ELSE IF sender.strip < Len(office_strip.strips)
                THEN [sender EXCEPT
                         !.phase = "prepare", !.strip = @ + 1,
                         !.start_index = @ + office_strip.strips[sender.strip].led_count]
                ELSE [sender EXCEPT !.phase = "idle", !.strip = 0]
    /\ UNCHANGED <<office_strip, wave>>
    /\ CycleUnchanged

CycleNext ==
    \/ \E color \in SendColors : CycleSetSolid(color)
    \/ CycleSend
    \/ CyclePrepare
    \/ CyclePushHigh
    \/ CyclePullLow

SpecCycle == CycleInit /\ [][CycleNext]_vars

\* C39: one send_all_sequential call makes the pin of each strip go high exactly
\* 24 x led_count times, also the pin of a strip shorter than the longest one: no pin
\* goes high for an entry of the timing array beyond the bits of its strip.
C39_OnePulsePerBit ==
    /\ [][sender.phase = "low" /\ sender'.phase = "idle" =>
              \A k \in 1..Len(office_strip.strips) :
                  wave'[office_strip.strips[k].pin] = 24 * office_strip.strips[k].led_count
         ]_vars
    /\ [][wave' # wave /\ sender.phase = "high" =>
              sender.at <= 24 * office_strip.strips[sender.strip].led_count]_vars

-----------------------------------------------------------------------------
(* main.rs: the main loop and the interrupt handler of timer channel 0 *)

\* the statements of TimerCh0 with the interrupt enabled again before the pin toggles
TimerCh0_enabling_early ==
    <<"disable_interrupt", "timer_ch0.disable", "clear_interrupt", "enable_interrupt",
      "timer_ch0.clear_match0_interrupt", "gpio5.toggle", "timer_ch0.enable">>

\* the statements of fn TimerCh0, in order
TimerCh0 ==
    <<"disable_interrupt", "timer_ch0.disable", "clear_interrupt",
      "timer_ch0.clear_match0_interrupt", "gpio5.toggle", "timer_ch0.enable",
      "enable_interrupt">>

\* the colours main sets the strip to: red, green, blue, then (9, 3, 5) in its loop
MainColors == <<C_RED, C_GREEN, C_BLUE, Color(9, 3, 5)>>

\* an access to an object of the program (history): who, what, and whether main had
\* enabled the interrupt by then
Access(context, resource) ==
    [context |-> context, resource |-> resource, armed |-> calls.armed]

\* what a statement of the handler does to the hardware, and the static it goes through
TimerCh0_statement(statement, hw) ==
    CASE statement = "disable_interrupt" ->
             [hw |-> [hw EXCEPT !.interrupt_enabled = FALSE], static |-> "none"]
      [] statement = "timer_ch0.disable" ->
             [hw |-> [hw EXCEPT !.timer_enabled = FALSE], static |-> "TIMER_CH0"]
      [] statement = "clear_interrupt" ->
             [hw |-> [hw EXCEPT !.pending = FALSE], static |-> "none"]
      [] statement = "timer_ch0.clear_match0_interrupt" ->
             [hw |-> [hw EXCEPT !.match0 = FALSE], static |-> "TIMER_CH0"]
      [] statement = "gpio5.toggle" ->
             [hw |-> [hw EXCEPT !.gpio5 = ~@], static |-> "GPIO5"]
      [] statement = "timer_ch0.enable" ->
             [hw |-> [hw EXCEPT !.timer_enabled = TRUE], static |-> "TIMER_CH0"]
      [] statement = "enable_interrupt" ->
             [hw |-> [hw EXCEPT !.interrupt_enabled = TRUE], static |-> "none"]

\* main stands before the store into the statics: gpio5 is low, timer channel 0 is
\* configured and enabled, its interrupt is not enabled yet
IrqInit ==
    /\ hc = [interrupt_enabled |-> FALSE, pending |-> FALSE, timer_enabled |-> TRUE,
             match0 |-> FALSE, gpio5 |-> FALSE, statics_stored |-> FALSE]
    /\ calls = [main |-> "store", round |-> 1, handler |-> 0, armed |-> FALSE,
                reentered |-> FALSE]
    /\ office_strip = [color_buffer |-> <<C_OFF>>, sent |-> <<C_OFF>>]
    /\ trace = {}
    /\ pins = <<>>
    /\ sender = <<>>
    /\ wave = <<>>
    /\ overflow_checks = FALSE
    /\ panicked = FALSE
    /\ tc = <<>>
    /\ segment = <<>>
    /\ next_id = 0
    /\ animation_array = <<>>
    /\ timer_ch1 = <<>>
    /\ background = <<>>
    /\ bg_log = <<>>
    /\ foreground = <<>>
    /\ fg_log = <<>>
    /\ progression = <<>>
    /\ stateful_rainbow = <<>>

IrqUnchanged ==
    UNCHANGED <<tc, segment, next_id, overflow_checks, panicked, animation_array, timer_ch1,
                pins, sender, wave, bgVars, fgVars, progression, stateful_rainbow>>

\* the timer reaches match value 0: the match flag is set and the interrupt is raised
TimerMatch0 ==
    /\ hc.timer_enabled
    /\ ~hc.match0
    /\ hc' = [hc EXCEPT !.match0 = TRUE, !.pending = TRUE]
    /\ UNCHANGED <<calls, office_strip, trace>>
    /\ IrqUnchanged

\* main: *(GPIO5.as_mut_ptr()) = gpio5; *(TIMER_CH0.as_mut_ptr()) = timer_ch0
MainStoreStatics ==
    /\ calls.handler = 0
    /\ calls.main = "store"
    /\ hc' = [hc EXCEPT !.statics_stored = TRUE]
    /\ calls' = [calls EXCEPT !.main = "enable"]
    /\ trace' = trace \cup {Access("main", "GPIO5"), Access("main", "TIMER_CH0")}
    /\ UNCHANGED office_strip
    /\ IrqUnchanged

\* main: enable_interrupt(Interrupt::TimerCh0)
MainEnableInterrupt ==
    /\ calls.handler = 0
    /\ calls.main = "enable"
    /\ hc' = [hc EXCEPT !.interrupt_enabled = TRUE]
    /\ calls' = [calls EXCEPT !.main = "set", !.armed = TRUE]
    /\ UNCHANGED <<office_strip, trace>>
    /\ IrqUnchanged

\* main: office_strip.set_strip_to_solid_color(color)
MainSetSolid ==
    /\ calls.handler = 0
    /\ calls.main = "set"
    /\ office_strip' = [office_strip EXCEPT
                           !.color_buffer = [i \in 1..Len(@) |-> MainColors[calls.round]]]
    /\ calls' = [calls EXCEPT !.main = "send"]
    /\ trace' = trace \cup {Access("main", "color_buffer")}
    /\ UNCHANGED hc
    /\ IrqUnchanged

\* main: office_strip.send_all_sequential(&mut pins)
MainSend ==
    /\ calls.handler = 0
    /\ calls.main = "send"
    /\ office_strip' = [office_strip EXCEPT !.sent = office_strip.color_buffer]
    /\ calls' = [calls EXCEPT !.main = "delay"]
    /\ trace' = trace \cup {Access("main", "color_buffer"), Access("main", "strip pins")}
    /\ UNCHANGED hc
    /\ IrqUnchanged

\* main: d.delay_ms(1000), then the next colour; the last one is set over and over
MainDelay ==
    /\ calls.handler = 0
    /\ calls.main = "delay"
    /\ calls' = [calls EXCEPT !.main = "set",
                              !.round = IF @ < Len(MainColors) THEN @ + 1 ELSE @]
    /\ UNCHANGED <<hc, office_strip, trace>>
    /\ IrqUnchanged

\* a statement of the handler is executed
TimerCh0Run(at) ==
    \E r \in {TimerCh0_statement(TimerCh0[at], hc)} :
        /\ hc' = r.hw
        /\ trace' = IF r.static = "none" THEN trace
                    ELSE trace \cup {Access("TimerCh0", r.static)}

\* the interrupt is taken: the trap enters TimerCh0 and its first statement runs
TimerCh0Enter ==
    /\ hc.interrupt_enabled
    /\ hc.pending
    /\ TimerCh0Run(1)
    /\ calls' = [calls EXCEPT !.handler = 2, !.reentered = @ \/ calls.handler # 0]
    /\ UNCHANGED office_strip
    /\ IrqUnchanged

\* the next statement of TimerCh0; after the last one the handler returns
TimerCh0Step ==
    /\ calls.handler # 0
    /\ ~calls.reentered
    /\ TimerCh0Run(calls.handler)
    /\ calls' = [calls EXCEPT !.handler = IF @ < Len(TimerCh0) THEN @ + 1 ELSE 0]
    /\ UNCHANGED office_strip
    /\ IrqUnchanged

IrqNext ==
    \/ TimerMatch0
    \/ MainStoreStatics
    \/ MainEnableInterrupt
    \/ MainSetSolid
    \/ MainSend
    \/ MainDelay
    \/ TimerCh0Enter
    \/ TimerCh0Step

SpecIrq == IrqInit /\ [][IrqNext]_vars

Statics == {"GPIO5", "TIMER_CH0"}

\* C40: once main has stored GPIO5 and TIMER_CH0 and enabled the interrupt, main and
\* TimerCh0 never access the same object: main does not touch the two statics again,
\* the handler touches nothing but the two statics (neither the colour buffer nor a
\* strip pin), and the handler is never entered while it runs, the interrupt being
\* disabled from its first statement to its last.
C40_NoSharedState ==
    /\ \A a \in trace, b \in trace :
           a.armed /\ b.armed /\ a.context # b.context => a.resource # b.resource
    /\ \A a \in trace : a.context = "main" /\ a.armed => a.resource \notin Statics
    /\ \A a \in trace : a.context = "TimerCh0" => a.armed /\ a.resource \in Statics
    /\ ~calls.reentered
    /\ calls.handler # 0 => ~hc.interrupt_enabled

\* the handler has toggled gpio5 and returned while main was between setting and
\* sending its loop colour, and the timer has matched again
C40_Witness ==
    /\ calls.handler = 0
    /\ calls.main = "send"
    /\ calls.round = 4
    /\ hc.gpio5
    /\ hc.pending
    /\ hc.interrupt_enabled
    /\ Access("TimerCh0", "GPIO5") \in trace
    /\ Access("main", "strip pins") \in trace
=============================================================================
